---- MODULE Spec2Model ----
(***************************************************************************)
(* The database value codecs of mariakit/types: Vector[T], JSON[T],        *)
(* StringArray, Point and LineString, each with Value() (encode) and       *)
(* Scan() (decode).                                                        *)
(*                                                                         *)
(* Representation.  A byte is a number in 0..255, a byte string a sequence *)
(* of bytes.  A machine word (uint32, uint64, and the bit pattern of a     *)
(* float32, float64, int32 or int64) is the tuple of its bytes, most       *)
(* significant first; math.Float64bits, math.Float64frombits and the       *)
(* conversions uint32(int32), int32(uint32) keep the bit pattern, so a     *)
(* numeric value is identified with its word.  A value handed to Scan or   *)
(* returned by Value is a record [kind, bytes, slack]: kind is "nil",      *)
(* "string", "bytes" or "other" (any other runtime kind), bytes the        *)
(* contents, slack the bytes of the backing array between len and cap.     *)
(***************************************************************************)
EXTENDS Integers, Sequences, FiniteSets, TLC

VARIABLES E, vec, doc, sa, pt, ls, ret

vars == <<E, vec, doc, sa, pt, ls, ret>>

\* Longest vector built by NewVector and most elements in a binary input.
MaxLen == 2
\* Most points of a LineString built directly or named by a count field.
MaxPoints == 2

----------------------------------------------------------------------------
(* Bytes, text and slices *)

Byte == 0..255

\* The ASCII code of the characters the codecs look at.
Asc(c) ==
    CASE c = " " -> 32 [] c = "(" -> 40 [] c = ")" -> 41 [] c = "+" -> 43
      [] c = "," -> 44 [] c = "-" -> 45 [] c = "." -> 46
      [] c = "0" -> 48 [] c = "1" -> 49 [] c = "2" -> 50 [] c = "3" -> 51
      [] c = "4" -> 52 [] c = "5" -> 53 [] c = "6" -> 54 [] c = "7" -> 55
      [] c = "8" -> 56 [] c = "9" -> 57
      [] c = "I" -> 73 [] c = "N" -> 78 [] c = "O" -> 79 [] c = "P" -> 80
      [] c = "T" -> 84 [] c = "[" -> 91 [] c = "]" -> 93
      [] c = "a" -> 97 [] c = "b" -> 98 [] c = "f" -> 102 [] c = "i" -> 105
      [] c = "l" -> 108 [] c = "n" -> 110 [] c = "o" -> 111 [] c = "p" -> 112
      [] c = "t" -> 116 [] c = "u" -> 117 [] c = "x" -> 120
      [] c = "\"" -> 34 [] c = "\t" -> 9 [] c = "\n" -> 10
      [] c = "c" -> 99 [] c = "d" -> 100 [] c = "e" -> 101 [] c = "g" -> 103
      [] c = "h" -> 104 [] c = "j" -> 106 [] c = "k" -> 107
      [] c = "m" -> 109 [] c = "r" -> 114 [] c = "s" -> 115
      [] c = "v" -> 118 [] c = "w" -> 119 [] c = "y" -> 121
      [] c = "z" -> 122 [] c = "_" -> 95 [] c = "A" -> 65 [] c = "C" -> 67
      [] c = "D" -> 68 [] c = "E" -> 69 [] c = "F" -> 70 [] c = "L" -> 76
      [] c = "R" -> 82 [] c = "V" -> 86 [] c = "Y" -> 89
      [] c = "B" -> 66 [] c = "M" -> 77 [] c = "U" -> 85 [] c = "'" -> 39

\* The bytes of a text given as a tuple of one-character strings.
Text(cs) == [i \in 1..Len(cs) |-> Asc(cs[i])]

NilValue == [kind |-> "nil", bytes |-> <<>>, slack |-> <<>>]
BytesValue(b) == [kind |-> "bytes", bytes |-> b, slack |-> <<>>]
StringValue(b) == [kind |-> "string", bytes |-> b, slack |-> <<>>]
OtherValue == [kind |-> "other", bytes |-> <<>>, slack |-> <<>>]

\* make([]byte, n): n zero bytes.
MakeBytes(n) == [i \in 1..n |-> 0]

\* copy of bs into buf[off : off+len(bs)] (off counted from 0).
PutAt(buf, off, bs) ==
    [i \in 1..Len(buf) |->
        IF i > off /\ i <= off + Len(bs) THEN bs[i - off] ELSE buf[i]]

\* data[lo:hi] of a byte string (lo, hi counted from 0, hi <= len(data)).
Slice(data, lo, hi) == [i \in 1..(hi - lo) |-> data[lo + i]]

Reverse(s) == [i \in 1..Len(s) |-> s[Len(s) + 1 - i]]

\* binary.LittleEndian.PutUint32 / PutUint64: the bytes written for word w.
LittleEndianPut(w) == Reverse(w)
\* binary.LittleEndian.Uint32 / Uint64: the word read from the bytes b.
LittleEndianWord(b) == Reverse(b)
\* binary.BigEndian.Uint32 / Uint64.
BigEndianWord(b) == b

\* uint32(n) for a small non-negative int n, as a word of 4 bytes.
Uint32OfInt(n) ==
    << (n \div 16777216) % 256, (n \div 65536) % 256, (n \div 256) % 256, n % 256 >>

\* int(u) for a uint32 word u (an int has 64 bits: no wrap-around).
IntOfUint32(u) == ((u[1] * 256 + u[2]) * 256 + u[3]) * 256 + u[4]

----------------------------------------------------------------------------
(* strings and strconv, as scanFromString uses them *)

\* unicode.IsSpace on an ASCII byte.
IsSpace(b) == b \in {9, 10, 11, 12, 13, 32}

RECURSIVE TrimLeft(_)
TrimLeft(s) == IF Len(s) > 0 /\ IsSpace(s[1]) THEN TrimLeft(Tail(s)) ELSE s

RECURSIVE TrimRight(_)
TrimRight(s) ==
    IF Len(s) > 0 /\ IsSpace(s[Len(s)])
    THEN TrimRight(SubSeq(s, 1, Len(s) - 1))
    ELSE s

\* strings.TrimSpace
TrimSpace(s) == TrimRight(TrimLeft(s))

\* strings.HasPrefix / strings.HasSuffix with a one-byte pattern.
HasPrefix(s, b) == Len(s) >= 1 /\ s[1] = b
HasSuffix(s, b) == Len(s) >= 1 /\ s[Len(s)] = b

\* strings.Split(s, sep) for a one-byte separator: at least one part.
RECURSIVE SplitFrom(_, _, _)
SplitFrom(s, sep, cur) ==
    IF Len(s) = 0 THEN <<cur>>
    ELSE IF s[1] = sep THEN <<cur>> \o SplitFrom(Tail(s), sep, <<>>)
    ELSE SplitFrom(Tail(s), sep, Append(cur, s[1]))

Split(s, sep) == SplitFrom(s, sep, <<>>)

IsDigit(b) == b >= 48 /\ b <= 57

\* w * 10 + d on an unsigned word w (most significant byte first), with the
\* carry out of the top byte: [word, carry].
RECURSIVE MulAdd10(_, _)
MulAdd10(w, d) ==
    IF Len(w) = 0 THEN [word |-> <<>>, carry |-> d]
    ELSE LET low == MulAdd10(Tail(w), d)
             t == w[1] * 10 + low.carry
         IN [word |-> <<t % 256>> \o low.word, carry |-> t \div 256]

\* The unsigned value of a run of decimal digits in a word of n bytes;
\* ok is FALSE when the value does not fit.
RECURSIVE ParseDigits(_, _)
ParseDigits(digits, acc) ==
    IF Len(digits) = 0 THEN [ok |-> TRUE, word |-> acc]
    ELSE LET r == MulAdd10(acc, digits[1] - 48)
         IN IF r.carry # 0 THEN [ok |-> FALSE, word |-> acc]
            ELSE ParseDigits(Tail(digits), r.word)

\* w + 1 on a word, dropping the carry out of the top byte.
RECURSIVE Increment(_)
Increment(w) ==
    IF Len(w) = 0 THEN <<>>
    ELSE IF w[Len(w)] = 255
         THEN Increment(SubSeq(w, 1, Len(w) - 1)) \o <<0>>
         ELSE SubSeq(w, 1, Len(w) - 1) \o <<w[Len(w)] + 1>>

\* Two's-complement negation of a word.
Negate(w) == Increment([i \in 1..Len(w) |-> 255 - w[i]])

\* strconv.ParseInt(s, 10, bitSize) with bitSize = 8 * n: the value as a word
\* of n bytes in two's complement, or ok = FALSE on a syntax or range error.
ParseInt(s, n) ==
    LET neg == Len(s) > 0 /\ s[1] = 45
        signed == Len(s) > 0 /\ s[1] \in {43, 45}
        digits == IF signed THEN Tail(s) ELSE s
        bad == [ok |-> FALSE, word |-> MakeBytes(n)]
    IN IF Len(digits) = 0 \/ \E i \in 1..Len(digits) : ~IsDigit(digits[i])
       THEN bad
       ELSE LET m == ParseDigits(digits, MakeBytes(n))
                minimum == [i \in 1..n |-> IF i = 1 THEN 128 ELSE 0]
            IN IF ~m.ok THEN bad
               ELSE IF ~neg /\ m.word[1] < 128 THEN [ok |-> TRUE, word |-> m.word]
               ELSE IF neg /\ (m.word[1] < 128 \/ m.word = minimum)
                    THEN [ok |-> TRUE, word |-> Negate(m.word)]
               ELSE bad

\* Decimal literals with their IEEE-754 bit patterns, single and double:
\* 1, 1.0, 2.5, -2.5, 3.14, -4.2, 2147483648, -2147483648, 2, -73.9654 and
\* 40.7829.
FloatLiterals ==
    { [tok |-> Text(<<"2">>), bits32 |-> <<64, 0, 0, 0>>,
       bits64 |-> <<64, 0, 0, 0, 0, 0, 0, 0>>],
      [tok |-> Text(<<"-", "7", "3", ".", "9", "6", "5", "4">>),
       bits32 |-> <<194, 147, 238, 73>>,
       bits64 |-> <<192, 82, 125, 201, 29, 20, 227, 189>>],
      [tok |-> Text(<<"4", "0", ".", "7", "8", "2", "9">>),
       bits32 |-> <<66, 35, 33, 177>>,
       bits64 |-> <<64, 68, 100, 54, 17, 52, 4, 234>>],
      [tok |-> Text(<<"2", "1", "4", "7", "4", "8", "3", "6", "4", "8">>),
       bits32 |-> <<79, 0, 0, 0>>, bits64 |-> <<65, 224, 0, 0, 0, 0, 0, 0>>],
      [tok |-> Text(<<"-", "2", "1", "4", "7", "4", "8", "3", "6", "4", "8">>),
       bits32 |-> <<207, 0, 0, 0>>, bits64 |-> <<193, 224, 0, 0, 0, 0, 0, 0>>],
      [tok |-> Text(<<"1">>), bits32 |-> <<63, 128, 0, 0>>,
       bits64 |-> <<63, 240, 0, 0, 0, 0, 0, 0>>],
      [tok |-> Text(<<"1", ".", "0">>), bits32 |-> <<63, 128, 0, 0>>,
       bits64 |-> <<63, 240, 0, 0, 0, 0, 0, 0>>],
      [tok |-> Text(<<"2", ".", "5">>), bits32 |-> <<64, 32, 0, 0>>,
       bits64 |-> <<64, 4, 0, 0, 0, 0, 0, 0>>],
      [tok |-> Text(<<"-", "2", ".", "5">>), bits32 |-> <<192, 32, 0, 0>>,
       bits64 |-> <<192, 4, 0, 0, 0, 0, 0, 0>>],
      [tok |-> Text(<<"3", ".", "1", "4">>), bits32 |-> <<64, 72, 245, 195>>,
       bits64 |-> <<64, 9, 30, 184, 81, 235, 133, 31>>],
      [tok |-> Text(<<"-", "4", ".", "2">>), bits32 |-> <<192, 134, 102, 102>>,
       bits64 |-> <<192, 16, 204, 204, 204, 204, 204, 205>>] }

\* strconv.ParseFloat(s, bitSize) with bitSize = 8 * n, on the literals above;
\* any other text of the inputs used here is no number (ok = FALSE).
ParseFloat(s, n) ==
    IF \E l \in FloatLiterals : l.tok = s
    THEN LET l == CHOOSE l \in FloatLiterals : l.tok = s
         IN [ok |-> TRUE, word |-> IF n = 4 THEN l.bits32 ELSE l.bits64]
    ELSE [ok |-> FALSE, word |-> MakeBytes(n)]

----------------------------------------------------------------------------
(* Vector[T] *)

\* The element types of the VectorElement constraint.
ElemKinds == {"float32", "float64", "int32", "int64"}

\* The zero value of Vector[T] (Data nil, which has length 0).
ZeroVector == [Data |-> <<>>, Dimension |-> 0, Valid |-> FALSE]

\* NewVector leaving Dimension at its zero value.
NewVectorNoDimension(data) == [Data |-> data, Dimension |-> 0, Valid |-> TRUE]

NewVector(data) == [Data |-> data, Dimension |-> Len(data), Valid |-> TRUE]

\* ValueElementType numbering the element types by width: the 4-byte ones
\* first.
ValueElementTypeByWidth(e) ==
    CASE e = "float32" -> 1 [] e = "int32" -> 2
      [] e = "float64" -> 3 [] e = "int64" -> 4

\* The tag byte and the element width Value picks for element type e.
ValueElementType(e) ==
    CASE e = "float32" -> 1 [] e = "float64" -> 2
      [] e = "int32" -> 3 [] e = "int64" -> 4

ValueElementSize(e) ==
    CASE e = "float32" -> 4 [] e = "float64" -> 8
      [] e = "int32" -> 4 [] e = "int64" -> 8

\* The loop of Value writing the elements from index i on, at offset.
RECURSIVE WriteElements(_, _, _, _, _)
WriteElements(data, elems, i, offset, elementSize) ==
    IF i > Len(elems) THEN data
    ELSE WriteElements(PutAt(data, offset, LittleEndianPut(elems[i])),
                       elems, i + 1, offset + elementSize, elementSize)

\* Vector.Value without the test for empty data.
VectorValueEncodesEmpty(e, v) ==
    IF ~v.Valid
    THEN [val |-> NilValue, err |-> "nil"]
    ELSE [val |-> BytesValue(
                    WriteElements(
                        PutAt(PutAt(MakeBytes(1 + 4 + Len(v.Data) * ValueElementSize(e)),
                                    0, <<ValueElementType(e)>>),
                              1, LittleEndianPut(Uint32OfInt(Len(v.Data)))),
                        v.Data, 1, 5, ValueElementSize(e))),
          err |-> "nil"]

\* Vector.Value: [val, err].
VectorValue(e, v) ==
    IF ~v.Valid \/ Len(v.Data) = 0
    THEN [val |-> NilValue, err |-> "nil"]
    ELSE LET elementSize == ValueElementSize(e)
             elementType == ValueElementType(e)
             made == MakeBytes(1 + 4 + Len(v.Data) * elementSize)
             tagged == PutAt(made, 0, <<elementType>>)
             sized == PutAt(tagged, 1, LittleEndianPut(Uint32OfInt(Len(v.Data))))
         IN [val |-> BytesValue(WriteElements(sized, v.Data, 1, 5, elementSize)),
             err |-> "nil"]

\* The element width Scan picks for a tag byte; 0 for an unknown tag.
ScanElementSize(elementType) ==
    CASE elementType \in {1, 3} -> 4
      [] elementType \in {2, 4} -> 8
      [] OTHER -> 0

\* The dynamic type of the element Scan decodes for a tag byte.
ScanElementKind(elementType) ==
    CASE elementType = 1 -> "float32" [] elementType = 2 -> "float64"
      [] elementType = 3 -> "int32" [] elementType = 4 -> "int64"

\* ScanElement reading the bytes most significant first.
ScanElementBigEndian(data, offset, elementSize) ==
    BigEndianWord(Slice(data, offset, offset + elementSize))

\* The element Scan reads at offset.
ScanElement(data, offset, elementSize) ==
    LittleEndianWord(Slice(data, offset, offset + elementSize))

\* ScanBinary refusing a dimension field of 0.
ScanBinaryRejectsEmpty(e, v, data) ==
    IF Len(data) < 5 THEN [v |-> v, err |-> "vector data too short"]
    ELSE
    LET elementType == data[1]
        dimension == IntOfUint32(LittleEndianWord(Slice(data, 1, 5)))
        elementSize == ScanElementSize(elementType)
        expectedLen == 5 + dimension * elementSize
    IN  IF elementSize = 0 THEN [v |-> v, err |-> "unknown vector element type"]
        ELSE IF Len(data) < expectedLen \/ dimension = 0
        THEN [v |-> v, err |-> "vector data too short for dimension"]
        ELSE IF ScanElementKind(elementType) # e
        THEN [v |-> v, err |-> "panic"]
        ELSE [v |-> [Data |-> [i \in 1..dimension |->
                                 ScanElement(data, 5 + (i - 1) * elementSize,
                                             elementSize)],
                     Dimension |-> dimension,
                     Valid |-> TRUE],
              err |-> "nil"]

\* ScanBinary without the default case of the switch on the tag byte: the
\* element size of an unknown tag stays 0.
ScanBinaryNoDefault(e, v, data) ==
    IF Len(data) < 5 THEN [v |-> v, err |-> "vector data too short"]
    ELSE
    LET elementType == data[1]
        dimension == IntOfUint32(LittleEndianWord(Slice(data, 1, 5)))
        elementSize == ScanElementSize(elementType)
        expectedLen == 5 + dimension * elementSize
    IN  IF elementSize = 0
        THEN IF Slice(data, 1, 5) = <<0, 0, 0, 0>>
             THEN [v |-> [Data |-> <<>>, Dimension |-> 0, Valid |-> TRUE],
                   err |-> "nil"]
             ELSE [v |-> v, err |-> "panic"]
        ELSE IF Len(data) < expectedLen
        THEN [v |-> v, err |-> "vector data too short for dimension"]
        ELSE IF dimension >= 1 /\ ScanElementKind(elementType) # e
        THEN [v |-> v, err |-> "panic"]
        ELSE [v |-> [Data |-> [i \in 1..dimension |->
                                 ScanElement(data, 5 + (i - 1) * elementSize,
                                             elementSize)],
                     Dimension |-> dimension,
                     Valid |-> TRUE],
              err |-> "nil"]

\* ScanBinary taking every element to be 4 bytes wide in its length test; a
\* read past the end of the buffer is the slice-bounds panic.
ScanBinaryWidth4(e, v, data) ==
    IF Len(data) < 5 THEN [v |-> v, err |-> "vector data too short"]
    ELSE
    LET elementType == data[1]
        dimension == IntOfUint32(LittleEndianWord(Slice(data, 1, 5)))
        elementSize == ScanElementSize(elementType)
        expectedLen == 5 + dimension * 4
    IN  IF elementSize = 0 THEN [v |-> v, err |-> "unknown vector element type"]
        ELSE IF Len(data) < expectedLen
        THEN [v |-> v, err |-> "vector data too short for dimension"]
        ELSE IF dimension >= 1 /\ ScanElementKind(elementType) # e
        THEN [v |-> v, err |-> "panic"]
        ELSE IF Len(data) < 5 + dimension * elementSize
        THEN [v |-> v, err |-> "panic"]
        ELSE [v |-> [Data |-> [i \in 1..dimension |->
                                 ScanElement(data, 5 + (i - 1) * elementSize,
                                             elementSize)],
                     Dimension |-> dimension,
                     Valid |-> TRUE],
              err |-> "nil"]

\* The binary path of Vector.Scan: [v, err].  err "panic" is the run-time
\* panic of the failed type assertion elem.(T); it is no returned error.
ScanBinary(e, v, data) ==
    IF Len(data) < 5 THEN [v |-> v, err |-> "vector data too short"]
    ELSE
    LET elementType == data[1]
        dimension == IntOfUint32(LittleEndianWord(Slice(data, 1, 5)))
        elementSize == ScanElementSize(elementType)
        expectedLen == 5 + dimension * elementSize
    IN  IF elementSize = 0 THEN [v |-> v, err |-> "unknown vector element type"]
        ELSE IF Len(data) < expectedLen
        THEN [v |-> v, err |-> "vector data too short for dimension"]
        ELSE IF dimension >= 1 /\ ScanElementKind(elementType) # e
        THEN [v |-> v, err |-> "panic"]
        ELSE [v |-> [Data |-> [i \in 1..dimension |->
                                 ScanElement(data, 5 + (i - 1) * elementSize,
                                             elementSize)],
                     Dimension |-> dimension,
                     Valid |-> TRUE],
              err |-> "nil"]

\* The end of the last byte range the binary path of Vector.Scan reads from
\* data: nothing under 5 bytes, the 5 header bytes on an unknown tag or a
\* failed length test, the first element when its type assertion fails, and
\* every element otherwise.
ScanBinaryExtent(e, data) ==
    IF Len(data) < 5 THEN 0
    ELSE
    LET elementType == data[1]
        dimension == IntOfUint32(LittleEndianWord(Slice(data, 1, 5)))
        elementSize == ScanElementSize(elementType)
        expectedLen == 5 + dimension * elementSize
    IN  IF elementSize = 0 THEN 5
        ELSE IF Len(data) < expectedLen THEN 5
        ELSE IF dimension >= 1 /\ ScanElementKind(elementType) # e
        THEN 5 + elementSize
        ELSE expectedLen

\* ParseElement parsing an int32 as a 64-bit integer and keeping its low 32
\* bits.
ParseElementTruncates(e, part) ==
    CASE e = "float32" -> ParseFloat(part, 4)
      [] e = "float64" -> ParseFloat(part, 8)
      [] e = "int32" -> [ok |-> ParseInt(part, 8).ok,
                         word |-> SubSeq(ParseInt(part, 8).word, 5, 8)]
      [] e = "int64" -> ParseInt(part, 8)

\* The element scanFromString parses from one trimmed part: [ok, word].
ParseElement(e, part) ==
    CASE e = "float32" -> ParseFloat(part, 4)
      [] e = "float64" -> ParseFloat(part, 8)
      [] e = "int32" -> ParseInt(part, 4)
      [] e = "int64" -> ParseInt(part, 8)

\* scanFromString storing each element in v.Data as soon as it is parsed.
ScanFromStringStoresParsed(e, v, str) ==
    LET s == TrimSpace(str)
    IN  IF ~HasPrefix(s, 91) \/ ~HasSuffix(s, 93)
        THEN [v |-> v, err |-> "invalid vector string format"]
        ELSE
        LET inner == TrimSpace(Slice(s, 1, Len(s) - 1))
            parts == Split(inner, 44)
            parsed == [i \in 1..Len(parts) |-> ParseElement(e, TrimSpace(parts[i]))]
            stored == { n \in 0..Len(parts) : \A i \in 1..n : parsed[i].ok }
            last == CHOOSE n \in stored : \A m \in stored : m <= n
        IN  IF inner = <<>>
            THEN [v |-> [Data |-> <<>>, Dimension |-> 0, Valid |-> TRUE],
                  err |-> "nil"]
            ELSE IF last < Len(parts)
            THEN [v |-> [v EXCEPT !.Data = [i \in 1..last |-> parsed[i].word]],
                  err |-> "failed to parse vector element"]
            ELSE [v |-> [Data |-> [i \in 1..Len(parts) |-> parsed[i].word],
                         Dimension |-> Len(parts),
                         Valid |-> TRUE],
                  err |-> "nil"]

\* Vector.scanFromString: [v, err].  err "panic" is the slice-bounds panic
\* s[1 : len(s)-1] would raise on a text of one byte; no such text both starts
\* with "[" and ends with "]", so that outcome never arises.
ScanFromString(e, v, str) ==
    LET s == TrimSpace(str)
    IN  IF ~HasPrefix(s, 91) \/ ~HasSuffix(s, 93)
        THEN [v |-> v, err |-> "invalid vector string format"]
        ELSE IF 1 > Len(s) - 1 THEN [v |-> v, err |-> "panic"]
        ELSE
        LET inner == TrimSpace(Slice(s, 1, Len(s) - 1))
            parts == Split(inner, 44)
            parsed == [i \in 1..Len(parts) |-> ParseElement(e, TrimSpace(parts[i]))]
        IN  IF inner = <<>>
            THEN [v |-> [Data |-> <<>>, Dimension |-> 0, Valid |-> TRUE],
                  err |-> "nil"]
            ELSE IF \E i \in 1..Len(parts) : ~parsed[i].ok
            THEN [v |-> v, err |-> "failed to parse vector element"]
            ELSE [v |-> [Data |-> [i \in 1..Len(parts) |-> parsed[i].word],
                         Dimension |-> Len(parts),
                         Valid |-> TRUE],
                  err |-> "nil"]

\* Vector.Scan returning early on nil without touching Valid.
VectorScanNilNoOp(e, v, value) ==
    CASE value.kind = "nil" -> [v |-> v, err |-> "nil"]
      [] value.kind = "string" -> ScanFromString(e, v, value.bytes)
      [] value.kind = "bytes" -> ScanBinary(e, v, value.bytes)
      [] OTHER -> [v |-> v, err |-> "unsupported type for Vector"]

\* Vector.Scan: [v, err].
VectorScan(e, v, value) ==
    CASE value.kind = "nil" -> [v |-> [v EXCEPT !.Valid = FALSE], err |-> "nil"]
      [] value.kind = "string" -> ScanFromString(e, v, value.bytes)
      [] value.kind = "bytes" -> ScanBinary(e, v, value.bytes)
      [] OTHER -> [v |-> v, err |-> "unsupported type for Vector"]

\* Vector.Len
VectorLen(v) == v.Dimension

----------------------------------------------------------------------------
(* fmt.Sscanf, as Point.Scan uses it *)

\* The number of leading bytes of s that are in set.
RECURSIVE RunLen(_, _)
RunLen(s, set) ==
    IF Len(s) > 0 /\ s[1] \in set THEN 1 + RunLen(Tail(s), set) ELSE 0

Drop(s, n) == SubSeq(s, n + 1, Len(s))

DecimalDigits == 48..57

\* ss.floatToken on decimal input takes the longest prefix of the form
\* sign? digits* (. digits*)? ([eEpP] sign? digits*)?, where digits may hold
\* "_".  Each step gets the length taken so far and returns the new length.
TokenSign(s) == IF Len(s) > 0 /\ s[1] \in {43, 45} THEN 1 ELSE 0

TokenDigits(s, n) == n + RunLen(Drop(s, n), DecimalDigits \cup {95})

TokenFraction(s, n) ==
    IF Len(s) > n /\ s[n + 1] = 46 THEN TokenDigits(s, n + 1) ELSE n

TokenExponentSign(s, n) ==
    IF Len(s) > n /\ s[n + 1] \in {43, 45} THEN n + 1 ELSE n

TokenExponent(s, n) ==
    IF Len(s) > n /\ s[n + 1] \in {69, 101, 80, 112}
    THEN TokenDigits(s, TokenExponentSign(s, n + 1))
    ELSE n

FloatTokenLen(s) ==
    TokenExponent(s, TokenFraction(s, TokenDigits(s, TokenSign(s))))

\* The input after ss.SkipSpace of Sscanf, which fails on a newline: [ok, rest].
SkipSpaceBy(s, n) ==
    [ok |-> ~(Len(s) > n /\ s[n + 1] = 10), rest |-> Drop(s, n)]

SkipSpace(s) == SkipSpaceBy(s, RunLen(s, {9, 11, 12, 13, 32}))

\* The verb %f into a *float64: [ok, word, rest].  It fails at the end of
\* the input and when strconv.ParseFloat refuses the token.
ScanFloatParsed(sk, n, f) ==
    [ok |-> sk.ok /\ Len(sk.rest) > 0 /\ f.ok,
     word |-> f.word,
     rest |-> Drop(sk.rest, n)]

ScanFloatToken(sk, n) ==
    ScanFloatParsed(sk, n, ParseFloat(SubSeq(sk.rest, 1, n), 8))

ScanFloatSkipped(sk) == ScanFloatToken(sk, FloatTokenLen(sk.rest))

ScanFloatVerb(s) == ScanFloatSkipped(SkipSpace(s))

\* A lone space of the format: it matches one or more spaces of the input, or
\* the end of the input: [ok, rest].
ScanFormatSpace(s) ==
    IF Len(s) = 0 THEN [ok |-> TRUE, rest |-> s]
    ELSE IF ~IsSpace(s[1]) \/ s[1] = 10 THEN [ok |-> FALSE, rest |-> s]
    ELSE [ok |-> TRUE, rest |-> Drop(s, RunLen(s, {9, 11, 12, 13, 32}))]

\* The format tail "%f %f)" after the first %f gave fx, the space sp and the
\* second %f fy: ")" must be the next byte.  [ok, x, y].
ScanCoordinatesEnd(fx, sp, fy) ==
    [ok |-> fx.ok /\ sp.ok /\ fy.ok /\ Len(fy.rest) > 0 /\ fy.rest[1] = 41,
     x |-> fx.word, y |-> fy.word]

ScanCoordinatesSecond(fx, sp) == ScanCoordinatesEnd(fx, sp, ScanFloatVerb(sp.rest))

ScanCoordinatesSpace(fx) == ScanCoordinatesSecond(fx, ScanFormatSpace(fx.rest))

\* The format tail "%f %f)": [ok, x, y].
ScanCoordinates(s) == ScanCoordinatesSpace(ScanFloatVerb(s))

ScanFailed == [ok |-> FALSE, x |-> MakeBytes(8), y |-> MakeBytes(8)]

\* fmt.Sscanf(str, "POINT(%f %f)", &x, &y): [ok, x, y].
SscanfPoint(str) ==
    IF Len(str) >= 6 /\ SubSeq(str, 1, 6) = Text(<<"P", "O", "I", "N", "T", "(">>)
    THEN ScanCoordinates(Drop(str, 6))
    ELSE ScanFailed

\* The format "%s(%f %f)" after the space before the token was skipped: %s
\* takes the n bytes up to the next white space, then "(" must be the next
\* byte.
SscanfLenientToken(sk, n) ==
    IF sk.ok /\ n > 0 /\ Len(sk.rest) > n /\ sk.rest[n + 1] = 40
    THEN ScanCoordinates(Drop(sk.rest, n + 1))
    ELSE ScanFailed

SscanfLenientSkipped(sk) ==
    SscanfLenientToken(sk, RunLen(sk.rest, Byte \ {9, 10, 11, 12, 13, 32}))

\* fmt.Sscanf(str, "%s(%f %f)", &pointPrefix, &x, &y): [ok, x, y].
SscanfLenient(str) == SscanfLenientSkipped(SkipSpace(str))

----------------------------------------------------------------------------
(* Point and LineString *)

WKBTypePoint == 1
WKBTypeLineString == 2

\* A Go byte slice: arr is its backing array from the slice's first byte to
\* its capacity, len its length.
GoSlice(value) == [arr |-> value.bytes \o value.slack, len |-> Len(value.bytes)]

\* The byte order fixed to little-endian, whatever the flag byte says.
OrderWordLittle(flag, b) == LittleEndianWord(b)

\* byteOrder.Uint32 / byteOrder.Uint64 for the order chosen by the flag byte.
OrderWord(flag, b) == IF flag = 0 THEN BigEndianWord(b) ELSE LittleEndianWord(b)

\* The zero value of Point: both coordinates +0.0.
ZeroPoint == [X |-> MakeBytes(8), Y |-> MakeBytes(8)]

\* decodePoint with the two coordinates exchanged.
DecodePointSwapped(flag, arr) ==
    IF Len(arr) < 16 THEN [ok |-> FALSE, p |-> ZeroPoint]
    ELSE [ok |-> TRUE,
          p |-> [X |-> OrderWord(flag, Slice(arr, 8, 16)),
                 Y |-> OrderWord(flag, Slice(arr, 0, 8))]]

\* decodePoint on the slice whose backing array is arr: a slice expression
\* data[lo:hi] is checked against the capacity, not the length.
\* [ok, p]; ok FALSE is the slice-bounds panic.
DecodePoint(flag, arr) ==
    IF Len(arr) < 16 THEN [ok |-> FALSE, p |-> ZeroPoint]
    ELSE [ok |-> TRUE,
          p |-> [X |-> OrderWord(flag, Slice(arr, 0, 8)),
                 Y |-> OrderWord(flag, Slice(arr, 8, 16))]]

\* Point.Value writing Y before X.
PointValueYFirst(p) ==
    LET made == MakeBytes(25)
        flagged == PutAt(made, 4, <<1>>)
        typed == PutAt(flagged, 5, LittleEndianPut(Uint32OfInt(WKBTypePoint)))
        withY == PutAt(typed, 9, LittleEndianPut(p.Y))
        withX == PutAt(withY, 17, LittleEndianPut(p.X))
    IN  [val |-> BytesValue(withX), err |-> "nil"]

\* Point.Value: [val, err].
PointValue(p) ==
    LET made == MakeBytes(25)
        flagged == PutAt(made, 4, <<1>>)
        typed == PutAt(flagged, 5, LittleEndianPut(Uint32OfInt(WKBTypePoint)))
        withX == PutAt(typed, 9, LittleEndianPut(p.X))
        withY == PutAt(withX, 17, LittleEndianPut(p.Y))
    IN  [val |-> BytesValue(withY), err |-> "nil"]

\* The text path of Point.Scan: [p, err].
PointScanParsed(p, first, second) ==
    IF first.ok THEN [p |-> [X |-> first.x, Y |-> first.y], err |-> "nil"]
    ELSE IF second.ok
    THEN [p |-> [X |-> second.x, Y |-> second.y], err |-> "nil"]
    ELSE [p |-> p, err |-> "failed to parse Point"]

PointScanText(p, str) == PointScanParsed(p, SscanfPoint(str), SscanfLenient(str))

\* Point.Scan asking for 26 bytes of WKB data.
PointScanMin26(p, value) ==
    IF value.kind = "nil" THEN [p |-> p, err |-> "nil"]
    ELSE IF value.kind \notin {"string", "bytes"}
    THEN [p |-> p, err |-> "unsupported type for Point"]
    ELSE
    LET data == value.bytes
    IN  IF Len(data) > 5 /\ data[1] \in {80, 112} THEN PointScanText(p, data)
        ELSE IF Len(data) < 26 THEN [p |-> p, err |-> "WKB data too short"]
        ELSE IF data[5] \notin {0, 1}
        THEN [p |-> p, err |-> "invalid byte order indicator"]
        ELSE IF OrderWord(data[5], Slice(data, 5, 9)) # Uint32OfInt(WKBTypePoint)
        THEN [p |-> p, err |-> "expected geometry type 1 (Point)"]
        ELSE LET d == DecodePoint(data[5], Slice(data, 9, 25))
             IN  IF d.ok THEN [p |-> d.p, err |-> "nil"]
                 ELSE [p |-> p, err |-> "panic"]

\* Point.Scan: [p, err].
PointScan(p, value) ==
    IF value.kind = "nil" THEN [p |-> p, err |-> "nil"]
    ELSE IF value.kind \notin {"string", "bytes"}
    THEN [p |-> p, err |-> "unsupported type for Point"]
    ELSE
    LET data == value.bytes
    IN  IF Len(data) > 5 /\ data[1] \in {80, 112} THEN PointScanText(p, data)
        ELSE IF Len(data) < 25 THEN [p |-> p, err |-> "WKB data too short"]
        ELSE IF data[5] \notin {0, 1}
        THEN [p |-> p, err |-> "invalid byte order indicator"]
        ELSE IF OrderWord(data[5], Slice(data, 5, 9)) # Uint32OfInt(WKBTypePoint)
        THEN [p |-> p, err |-> "expected geometry type 1 (Point)"]
        ELSE LET d == DecodePoint(data[5], Slice(data, 9, 25))
             IN  IF d.ok THEN [p |-> d.p, err |-> "nil"]
                 ELSE [p |-> p, err |-> "panic"]

\* The zero value of LineString (Points nil, which has length 0).
ZeroLineString == [Points |-> <<>>]

\* The loop of LineString.Value writing the points from index i on.
RECURSIVE WritePoints(_, _, _)
WritePoints(data, points, i) ==
    IF i > Len(points) THEN data
    ELSE LET offset == 13 + (i - 1) * 16
             withX == PutAt(data, offset, LittleEndianPut(points[i].X))
             withY == PutAt(withX, offset + 8, LittleEndianPut(points[i].Y))
         IN  WritePoints(withY, points, i + 1)

\* LineString.Value leaving the count field at zero.
LineStringValueNoCount(l) ==
    LET made == MakeBytes(13 + Len(l.Points) * 16)
        flagged == PutAt(made, 4, <<1>>)
        typed == PutAt(flagged, 5, LittleEndianPut(Uint32OfInt(WKBTypeLineString)))
    IN  [val |-> BytesValue(WritePoints(typed, l.Points, 1)), err |-> "nil"]

\* LineString.Value: [val, err].
LineStringValue(l) ==
    LET made == MakeBytes(13 + Len(l.Points) * 16)
        flagged == PutAt(made, 4, <<1>>)
        typed == PutAt(flagged, 5, LittleEndianPut(Uint32OfInt(WKBTypeLineString)))
        counted == PutAt(typed, 9, LittleEndianPut(Uint32OfInt(Len(l.Points))))
    IN  [val |-> BytesValue(WritePoints(counted, l.Points, 1)), err |-> "nil"]

\* ScanPointAt stepping 8 bytes per point instead of 16.
ScanPointAtStride8(flag, slice, i) ==
    IF 13 + i * 8 + 8 > Len(slice.arr) THEN [ok |-> FALSE, p |-> ZeroPoint]
    ELSE DecodePoint(flag, Drop(slice.arr, 13 + i * 8))

\* The point LineString.Scan decodes at index i (from 0): the slice
\* data[offset:offset+8] handed to decodePoint keeps the capacity of data, so
\* decodePoint reads 16 bytes of the backing array from offset on, and panics
\* when fewer than 16 are left before the capacity.  [ok, p].
ScanPointAt(flag, slice, i) ==
    LET offset == 13 + i * 16
    IN  IF offset + 8 > Len(slice.arr) THEN [ok |-> FALSE, p |-> ZeroPoint]
        ELSE DecodePoint(flag, Drop(slice.arr, offset))

\* LineString.Scan: [l, err].
LineStringScan(l, value) ==
    IF value.kind = "nil" THEN [l |-> l, err |-> "nil"]
    ELSE IF value.kind \notin {"string", "bytes"}
    THEN [l |-> l, err |-> "unsupported type for LineString"]
    ELSE
    LET data == value.bytes
        slice == GoSlice(value)
    IN  IF Len(data) < 29 THEN [l |-> l, err |-> "WKB data too short"]
        ELSE IF data[5] \notin {0, 1}
        THEN [l |-> l, err |-> "invalid byte order indicator"]
        ELSE IF OrderWord(data[5], Slice(data, 5, 9)) # Uint32OfInt(WKBTypeLineString)
        THEN [l |-> l, err |-> "expected geometry type 2 (LineString)"]
        ELSE
        LET numPoints == IntOfUint32(OrderWord(data[5], Slice(data, 9, 13)))
            decoded == [i \in 1..numPoints |-> ScanPointAt(data[5], slice, i - 1)]
        IN  IF \E i \in 1..numPoints : ~decoded[i].ok
            THEN [l |-> l, err |-> "panic"]
            ELSE [l |-> [Points |-> [i \in 1..numPoints |-> decoded[i].p]],
                  err |-> "nil"]

----------------------------------------------------------------------------
(* encoding/json, as JSON[T] and StringArray use it *)

\* The white space of JSON texts.
JSONSpace == {9, 10, 13, 32}

RECURSIVE TrimJSONLeft(_)
TrimJSONLeft(s) ==
    IF Len(s) > 0 /\ s[1] \in JSONSpace THEN TrimJSONLeft(Tail(s)) ELSE s

RECURSIVE TrimJSONRight(_)
TrimJSONRight(s) ==
    IF Len(s) > 0 /\ s[Len(s)] \in JSONSpace
    THEN TrimJSONRight(SubSeq(s, 1, Len(s) - 1))
    ELSE s

TrimJSON(s) == TrimJSONRight(TrimJSONLeft(s))

NullText == Text(<<"n", "u", "l", "l">>)

\* The values of T = float64 a JSON[T] holds here: three numbers and NaN.
DocValues == {"0", "1", "2", "NaN"}

\* The zero value of T.
ZeroDoc == "0"

\* json.Marshal(p.Data) for T = float64: NaN is an unsupported value.
MarshalDoc(d) ==
    IF d = "NaN" THEN [ok |-> FALSE, bytes |-> <<>>]
    ELSE [ok |-> TRUE, bytes |-> Text(<<d>>)]

\* Whether part is a string literal without escapes.
IsQuoted(part) ==
    /\ Len(part) >= 2
    /\ part[1] = 34
    /\ part[Len(part)] = 34
    /\ \A i \in 2..(Len(part) - 1) : part[i] \notin {34, 92}

\* The parts between the commas of the array text s, each trimmed.
ArrayParts(s) ==
    LET parts == Split(TrimJSON(SubSeq(s, 2, Len(s) - 1)), 44)
    IN  [i \in 1..Len(parts) |-> TrimJSON(parts[i])]

\* What the decoder's scanner makes of a trimmed text, on the texts used
\* here: null, a one-digit number, an array of string literals, or no JSON.
JSONKind(s) ==
    IF s = NullText THEN "null"
    ELSE IF Len(s) = 1 /\ s[1] \in {48, 49, 50} THEN "number"
    ELSE IF Len(s) >= 2 /\ s[1] = 91 /\ s[Len(s)] = 93
            /\ (TrimJSON(SubSeq(s, 2, Len(s) - 1)) = <<>>
                \/ \A i \in 1..Len(ArrayParts(s)) : IsQuoted(ArrayParts(s)[i]))
    THEN "array"
    ELSE "invalid"

\* json.Unmarshal(data, &p.Data) for T = float64: a number is stored, null
\* leaves Data alone, an array is a type error, no JSON a syntax error:
\* [d, err].
UnmarshalDoc(d, data) ==
    LET s == TrimJSON(data)
        kind == JSONKind(s)
    IN  CASE kind = "null" -> [d |-> d, err |-> "nil"]
          [] kind = "number" ->
                [d |-> CASE s[1] = 48 -> "0" [] s[1] = 49 -> "1" [] s[1] = 50 -> "2",
                 err |-> "nil"]
          [] kind = "array" -> [d |-> d, err |-> "json: cannot unmarshal"]
          [] OTHER -> [d |-> d, err |-> "json: syntax error"]

\* The zero value of JSON[T].
ZeroJSON == [Data |-> ZeroDoc, Valid |-> FALSE]

\* JSON.Value serializing Data without looking at Valid.
JSONValueIgnoresValid(p) ==
    LET m == MarshalDoc(p.Data)
    IN  IF ~m.ok THEN [val |-> NilValue, err |-> "json: unsupported value"]
        ELSE [val |-> BytesValue(m.bytes), err |-> "nil"]

\* JSON.Value: [val, err].
JSONValue(p) ==
    IF ~p.Valid THEN [val |-> NilValue, err |-> "nil"]
    ELSE LET m == MarshalDoc(p.Data)
         IN  IF ~m.ok THEN [val |-> NilValue, err |-> "json: unsupported value"]
             ELSE [val |-> BytesValue(m.bytes), err |-> "nil"]

\* JSON.Scan returning early, as for nil, on a value of any other kind.
JSONScanSkipsOther(p, value) ==
    IF value.kind \notin {"string", "bytes"} THEN [p |-> p, err |-> "nil"]
    ELSE LET u == UnmarshalDoc(p.Data, value.bytes)
         IN  IF u.err # "nil" THEN [p |-> p, err |-> u.err]
             ELSE [p |-> [Data |-> u.d, Valid |-> TRUE], err |-> "nil"]

\* JSON.Scan: [p, err].
JSONScan(p, value) ==
    IF value.kind = "nil" THEN [p |-> p, err |-> "nil"]
    ELSE IF value.kind \notin {"string", "bytes"}
    THEN [p |-> p, err |-> "unsupported type for JSON"]
    ELSE LET u == UnmarshalDoc(p.Data, value.bytes)
         IN  IF u.err # "nil" THEN [p |-> p, err |-> u.err]
             ELSE [p |-> [Data |-> u.d, Valid |-> TRUE], err |-> "nil"]

\* A StringArray: isNil tells the nil slice from an empty one; an item is the
\* byte string of its text.
NilStringArray == [isNil |-> TRUE, items |-> <<>>]
MakeStringArray(items) == [isNil |-> FALSE, items |-> items]

\* The JSON string literal of an item without characters to escape.
Quote(item) == <<34>> \o item \o <<34>>

RECURSIVE JoinQuoted(_)
JoinQuoted(items) ==
    IF Len(items) = 0 THEN <<>>
    ELSE IF Len(items) = 1 THEN Quote(items[1])
    ELSE Quote(items[1]) \o <<44>> \o JoinQuoted(Tail(items))

\* json.Marshal(p) for a []string: a nil slice encodes as null.
MarshalStrings(p) ==
    IF p.isNil THEN NullText ELSE <<91>> \o JoinQuoted(p.items) \o <<93>>

\* json.Unmarshal(data, p) for p *StringArray: null sets the slice to nil, an
\* array of string literals replaces it (an empty array by an empty, non-nil
\* slice), a number is a type error, no JSON a syntax error: [p, err].
UnmarshalStrings(p, data) ==
    LET s == TrimJSON(data)
        kind == JSONKind(s)
        parts == ArrayParts(s)
    IN  CASE kind = "null" -> [p |-> NilStringArray, err |-> "nil"]
          [] kind = "number" -> [p |-> p, err |-> "json: cannot unmarshal"]
          [] kind = "array" ->
                IF TrimJSON(SubSeq(s, 2, Len(s) - 1)) = <<>>
                THEN [p |-> MakeStringArray(<<>>), err |-> "nil"]
                ELSE [p |-> MakeStringArray(
                               [i \in 1..Len(parts) |->
                                   SubSeq(parts[i], 2, Len(parts[i]) - 1)]),
                      err |-> "nil"]
          [] OTHER -> [p |-> p, err |-> "json: syntax error"]

\* StringArray.Value: [val, err] (json.Marshal of strings cannot fail).
StringArrayValue(p) == [val |-> BytesValue(MarshalStrings(p)), err |-> "nil"]

\* StringArray.Scan: [p, err].
StringArrayScan(p, value) ==
    IF value.kind = "nil" THEN [p |-> p, err |-> "nil"]
    ELSE IF value.kind \notin {"string", "bytes"}
    THEN [p |-> p, err |-> "unsupported type for StringArray"]
    ELSE UnmarshalStrings(p, value.bytes)

----------------------------------------------------------------------------
(* The values the operations are called with *)

\* Two element values of each element type, as words: 1.0 and -2.5 for the
\* float types, 7 and -2 for the integer types.
Samples(e) ==
    CASE e = "float32" -> << <<63, 128, 0, 0>>, <<192, 32, 0, 0>> >>
      [] e = "float64" -> << <<63, 240, 0, 0, 0, 0, 0, 0>>,
                             <<192, 4, 0, 0, 0, 0, 0, 0>> >>
      [] e = "int32" -> << <<0, 0, 0, 7>>, <<255, 255, 255, 254>> >>
      [] e = "int64" -> << <<0, 0, 0, 0, 0, 0, 0, 7>>,
                           <<255, 255, 255, 255, 255, 255, 255, 254>> >>

\* The data NewVector is called with: every sequence of at most MaxLen samples.
VectorDatas(e) ==
    UNION { [1..n -> {Samples(e)[1], Samples(e)[2]}] : n \in 0..MaxLen }

\* n elements of the kind of tag t on the wire, least significant byte first.
RECURSIVE WireElements(_, _)
WireElements(t, n) ==
    IF n = 0 THEN <<>>
    ELSE WireElements(t, n - 1)
         \o Reverse(Samples(ScanElementKind(t))[((n - 1) % 2) + 1])

\* Byte buffers for Vector.Scan: for each tag 1..4 and dimension field d, the
\* header followed by exactly d elements, by d elements less one byte, and by
\* d + 1 elements; buffers with an unknown tag; buffers under 5 bytes; a
\* header naming 256 elements; headers naming 2^24, 2^28 - 1 and 2^32 - 1
\* elements; and a text form handed over as bytes.
VectorBuffers ==
    { <<t, d, 0, 0, 0>> \o WireElements(t, d) : t \in 1..4, d \in 0..MaxLen }
    \cup { LET full == <<t, d, 0, 0, 0>> \o WireElements(t, d)
           IN  SubSeq(full, 1, Len(full) - 1) : t \in 1..4, d \in 1..MaxLen }
    \cup { <<t, d, 0, 0, 0>> \o WireElements(t, d + 1) : t \in 1..4, d \in 0..1 }
    \cup { <<5, 1, 0, 0, 0, 0, 0, 0, 0>>, <<0, 0, 0, 0, 0>>, <<>>, <<1, 0, 0, 0>>,
           <<1, 0, 1, 0, 0>>, <<1, 0, 0, 0, 1, 0, 0, 0, 0>>,
           <<2, 255, 255, 255, 15, 0, 0, 0, 0, 0, 0, 0, 0>>,
           <<5, 255, 255, 255, 255>>, <<255, 0, 0, 0, 0>>, <<0, 1, 0, 0, 0>>,
           Text(<<"[", "1", "]">>), Text(<<"[", "1", ",", " ", "2", "]">>) }

\* Texts for Vector.Scan.
VectorTexts ==
    { Text(<<"[", "]">>), Text(<<" ", "[", " ", "]", "\n">>),
      Text(<<"[", "\t", "]">>),
      Text(<<"[", "1", "]">>), Text(<<"[", "1", ",", " ", "2", ".", "5", "]">>),
      Text(<<"[", "1", ",", " ", "2", "]">>),
      Text(<<"[", "1", ".", "0", ",", " ", "2", ".", "5", ",", " ",
             "3", ".", "1", "4", ",", " ", "-", "4", ".", "2", "]">>),
      Text(<<" ", "[", " ", "1", " ", ",", "1", " ", "]", " ">>),
      Text(<<"[", "1", ",", "x", "]">>), Text(<<"[", "1", ",", "]">>),
      Text(<<"[", "2", "1", "4", "7", "4", "8", "3", "6", "4", "8", "]">>),
      Text(<<"[", "-", "2", "1", "4", "7", "4", "8", "3", "6", "4", "8", ",", "1", "]">>),
      Text(<<"1", "]">>), Text(<<"[", "1">>), Text(<<"[">>), <<>> }

VectorInputs ==
    {NilValue, OtherValue}
    \cup { BytesValue(b) : b \in VectorBuffers }
    \cup { StringValue(t) : t \in VectorTexts }

----------------------------------------------------------------------------
(* The state machine.  One instance of each codec is under test; ret records
   the last call: the operation, its argument, the receiver before the call,
   the error and the value returned, and, when the argument of a Scan is the
   value the preceding Value call returned (rt), the instance src that call
   encoded and the operation by that did. *)

Return(op, in, pre, err, out, src, rt) ==
    [op |-> op, in |-> in, pre |-> pre, err |-> err, out |-> out,
     src |-> src, rt |-> rt,
     by |-> IF rt THEN ret.op ELSE "none"]

ValueOps == {"Vector.Value", "Point.Value", "LineString.Value",
             "JSON.Value", "StringArray.Value"}

\* The value returned by the preceding call, when that was a Value call that
\* did not fail.
Returned == IF ret.op \in ValueOps /\ ret.err = "nil" THEN {ret.out} ELSE {}

\* Every instance starts as the zero value of its type.
ZeroValues ==
    /\ vec = ZeroVector
    /\ doc = ZeroJSON
    /\ sa = NilStringArray
    /\ pt = ZeroPoint
    /\ ls = ZeroLineString
    /\ ret = Return("init", NilValue, ZeroVector, "nil", NilValue, ZeroVector, FALSE)

\* The element type T of the Vector[T] under test is any of the four.
Init == E \in ElemKinds /\ ZeroValues

\* Where no Vector is used, its element type does not matter.
InitNoVector == E = "float64" /\ ZeroValues

\* var v Vector[T]
VectorDeclare ==
    /\ vec' = ZeroVector
    /\ ret' = Return("Vector.zero", NilValue, vec, "nil", NilValue, ZeroVector, FALSE)
    /\ UNCHANGED <<E, doc, sa, pt, ls>>

\* v := NewVector(data)
VectorNew ==
    \E data \in VectorDatas(E) :
        /\ vec' = NewVector(data)
        /\ ret' = Return("NewVector", NilValue, vec, "nil", NilValue, ZeroVector, FALSE)
        /\ UNCHANGED <<E, doc, sa, pt, ls>>

\* v.Value()
VectorValueCall ==
    LET r == VectorValue(E, vec)
    IN  /\ ret' = Return("Vector.Value", NilValue, vec, r.err, r.val, vec, FALSE)
        /\ UNCHANGED <<E, vec, doc, sa, pt, ls>>

\* v.Scan(value), on the instance under test or on a fresh zero value that
\* then takes its place.
VectorScanCall ==
    \E value \in VectorInputs \cup Returned, fresh \in BOOLEAN :
        LET target == IF fresh THEN ZeroVector ELSE vec
            r == VectorScan(E, target, value)
            rt == value \in Returned
        IN  /\ vec' = r.v
            /\ ret' = Return("Vector.Scan", value, target, r.err, NilValue,
                             IF rt THEN ret.src ELSE ZeroVector, rt)
            /\ UNCHANGED <<E, doc, sa, pt, ls>>

NextVector == VectorDeclare \/ VectorNew \/ VectorValueCall \/ VectorScanCall

SpecVector == Init /\ [][NextVector]_vars

----------------------------------------------------------------------------
(* The values the geometry and document operations are called with *)

\* Most items of a StringArray built directly.
MaxItems == 2

\* The doubles -73.9654 and 40.7829, as words.
CoordA == <<192, 82, 125, 201, 29, 20, 227, 189>>
CoordB == <<64, 68, 100, 54, 17, 52, 4, 234>>

\* The points a Point literal is built from.
PointLiterals == { [X |-> x, Y |-> y] : x, y \in {CoordA, CoordB} }

\* The points of LineString literals, and the literals: every sequence of at
\* most MaxPoints of them.
PathPoints == { [X |-> CoordA, Y |-> CoordB], [X |-> CoordB, Y |-> CoordA] }
LineStringLiterals ==
    { [Points |-> ps] : ps \in UNION { [1..n -> PathPoints] : n \in 0..MaxPoints } }

\* A geometry buffer: 4 bytes of SRID, the flag byte, the type tag and the
\* body, tag and body in the byte order named by order (0 big, 1 little).
WireWord(order, w) == IF order = 0 THEN w ELSE Reverse(w)

RECURSIVE WirePoints(_, _)
WirePoints(order, n) ==
    IF n = 0 THEN <<>>
    ELSE WirePoints(order, n - 1)
         \o (IF n % 2 = 1
             THEN WireWord(order, CoordA) \o WireWord(order, CoordB)
             ELSE WireWord(order, CoordB) \o WireWord(order, CoordA))

PointBuffer(srid, flag, order, type) ==
    srid \o <<flag>> \o WireWord(order, <<0, 0, 0, type>>) \o WirePoints(order, 1)

PathBuffer(flag, order, type, count, n) ==
    <<0, 0, 0, 0, flag>> \o WireWord(order, <<0, 0, 0, type>>)
    \o WireWord(order, <<0, 0, 0, count>>) \o WirePoints(order, n)

\* Byte buffers for Point.Scan and LineString.Scan: points in both byte
\* orders, with several SRIDs, with a bad flag, with the tag of the other
\* byte order, with the LineString tag in either byte order and behind an
\* SRID starting with "P", one byte short, and empty; paths of
\* 0..MaxPoints points in both byte orders, with the Point tag, with a bad
\* flag, with a count field of 0 before one point, and with a count field one
\* above the points that follow.
GeometryBuffers ==
    { PointBuffer(srid, f, f, 1) :
          srid \in {<<0, 0, 0, 0>>, <<1, 2, 3, 4>>, <<80, 0, 0, 0>>,
                    <<112, 0, 0, 1>>}, f \in {0, 1} }
    \cup { PointBuffer(<<0, 0, 0, 0>>, 2, 1, 1),
           PointBuffer(<<0, 0, 0, 0>>, 1, 0, 1),
           PointBuffer(<<0, 0, 0, 0>>, 1, 1, 2),
           PointBuffer(<<0, 0, 0, 0>>, 0, 0, 2),
           PointBuffer(<<80, 0, 0, 0>>, 1, 1, 2), <<>>,
           SubSeq(PointBuffer(<<0, 0, 0, 0>>, 1, 1, 1), 1, 24) }
    \cup { PathBuffer(f, f, 2, n, n) : f \in {0, 1}, n \in 0..MaxPoints }
    \cup { PathBuffer(1, 1, 1, 1, 1), PathBuffer(2, 1, 2, 1, 1),
           PathBuffer(1, 1, 2, 0, 1) }
    \cup { PathBuffer(1, 1, 2, n + 1, n) : n \in 1..MaxPoints }

\* Texts for Point.Scan.
PointTexts ==
    { Text(<<"P", "O", "I", "N", "T", "(", "1", " ", "2", ".", "5", ")">>),
      Text(<<"P", "O", "I", "N", "T", "(", " ", "1", " ", " ", "2", ".", "5", ")">>),
      Text(<<"p", "o", "i", "n", "t", "(", "1", " ", "2", ".", "5", ")">>),
      Text(<<"p", "o", "i", "n", "t", "(", "1", " ", "2", ")">>),
      Text(<<"P", "O", "I", "N", "T", "(", "-", "7", "3", ".", "9", "6", "5", "4",
             " ", "4", "0", ".", "7", "8", "2", "9", ")">>),
      Text(<<"P", "O", "I", "N", "T", " ", "(", "1", " ", "2", ".", "5", ")">>),
      Text(<<"P", "O", "I", "N", "T", "(", "1", " ", "2", ".", "5">>),
      Text(<<"P", "O", "I", "N", "T", "(", "x", " ", "1", ")">>),
      Text(<<"P", "O", "I", "N", "T">>) }

\* The arguments of Point.Scan and LineString.Scan.  A byte buffer comes with
\* no spare capacity or with 16 spare bytes behind its length.
GeometryInputs ==
    {NilValue, OtherValue}
    \cup { BytesValue(b) : b \in GeometryBuffers }
    \cup { [kind |-> "bytes", bytes |-> PathBuffer(1, 1, 2, n + 1, n),
            slack |-> WireWord(1, CoordB) \o WireWord(1, CoordB)] :
              n \in 1..MaxPoints }
    \cup { StringValue(t) : t \in PointTexts }
    \cup { StringValue(PointBuffer(<<0, 0, 0, 0>>, 1, 1, 1)),
           StringValue(PathBuffer(1, 1, 2, 1, 1)),
           BytesValue(Text(<<"P", "O", "I", "N", "T", "(", "1", " ", "2", ".", "5", ")">>)) }

\* The items of StringArray literals, and the literals: the nil slice and
\* every sequence of at most MaxItems items.
Items == { Text(<<"a">>), Text(<<"b">>) }
StringArrayLiterals ==
    {NilStringArray}
    \cup { MakeStringArray(is) : is \in UNION { [1..n -> Items] : n \in 0..MaxItems } }

\* Texts for JSON.Scan and StringArray.Scan.
JSONTexts ==
    { Text(<<"1">>), Text(<<"2">>), Text(<<" ", "1", "\n">>), NullText,
      Text(<<"[", "]">>), Text(<<"[", " ", "]">>),
      Text(<<"[", "\"", "a", "\"", "]">>),
      Text(<<"[", "\"", "a", "\"", ",", " ", "\"", "b", "\"", "]">>),
      Text(<<"[", "\"", "a", "\"", ",", "]">>),
      Text(<<"[", "\"", "a", "\"">>),
      Text(<<"x">>), <<>> }

JSONInputs ==
    {NilValue, OtherValue}
    \cup { BytesValue(t) : t \in JSONTexts }
    \cup { StringValue(t) : t \in JSONTexts }

----------------------------------------------------------------------------
(* Point and LineString calls *)

\* p := Point{X: x, Y: y}
PointLiteral ==
    \E p \in PointLiterals :
        /\ pt' = p
        /\ ret' = Return("Point.literal", NilValue, pt, "nil", NilValue, ZeroPoint, FALSE)
        /\ UNCHANGED <<E, vec, doc, sa, ls>>

\* p.Value()
PointValueCall ==
    LET r == PointValue(pt)
    IN  /\ ret' = Return("Point.Value", NilValue, pt, r.err, r.val, pt, FALSE)
        /\ UNCHANGED <<E, vec, doc, sa, pt, ls>>

\* p.Scan(value), on the instance under test or on a fresh zero value.
PointScanCall ==
    \E value \in GeometryInputs \cup Returned, fresh \in BOOLEAN :
        LET target == IF fresh THEN ZeroPoint ELSE pt
            r == PointScan(target, value)
            rt == value \in Returned
        IN  /\ pt' = r.p
            /\ ret' = Return("Point.Scan", value, target, r.err, NilValue,
                             IF rt THEN ret.src ELSE ZeroPoint, rt)
            /\ UNCHANGED <<E, vec, doc, sa, ls>>

\* l := LineString{Points: ps}
LineStringLiteral ==
    \E l \in LineStringLiterals :
        /\ ls' = l
        /\ ret' = Return("LineString.literal", NilValue, ls, "nil", NilValue,
                         ZeroLineString, FALSE)
        /\ UNCHANGED <<E, vec, doc, sa, pt>>

\* l.Value()
LineStringValueCall ==
    LET r == LineStringValue(ls)
    IN  /\ ret' = Return("LineString.Value", NilValue, ls, r.err, r.val, ls, FALSE)
        /\ UNCHANGED <<E, vec, doc, sa, pt, ls>>

\* l.Scan(value), on the instance under test or on a fresh zero value.
LineStringScanCall ==
    \E value \in GeometryInputs \cup Returned, fresh \in BOOLEAN :
        LET target == IF fresh THEN ZeroLineString ELSE ls
            r == LineStringScan(target, value)
            rt == value \in Returned
        IN  /\ ls' = r.l
            /\ ret' = Return("LineString.Scan", value, target, r.err, NilValue,
                             IF rt THEN ret.src ELSE ZeroLineString, rt)
            /\ UNCHANGED <<E, vec, doc, sa, pt>>

NextGeometry ==
    \/ PointLiteral \/ PointValueCall \/ PointScanCall
    \/ LineStringLiteral \/ LineStringValueCall \/ LineStringScanCall

SpecGeometry == InitNoVector /\ [][NextGeometry]_vars

----------------------------------------------------------------------------
(* JSON[T] and StringArray calls *)

\* p := JSON[T]{Data: d, Valid: valid}
JSONLiteral ==
    \E d \in DocValues, valid \in BOOLEAN :
        /\ doc' = [Data |-> d, Valid |-> valid]
        /\ ret' = Return("JSON.literal", NilValue, doc, "nil", NilValue, ZeroJSON, FALSE)
        /\ UNCHANGED <<E, vec, sa, pt, ls>>

\* p.Value()
JSONValueCall ==
    LET r == JSONValue(doc)
    IN  /\ ret' = Return("JSON.Value", NilValue, doc, r.err, r.val, doc, FALSE)
        /\ UNCHANGED <<E, vec, doc, sa, pt, ls>>

\* p.Scan(value), on the instance under test or on a fresh zero value.
JSONScanCall ==
    \E value \in JSONInputs \cup Returned, fresh \in BOOLEAN :
        LET target == IF fresh THEN ZeroJSON ELSE doc
            r == JSONScan(target, value)
            rt == value \in Returned
        IN  /\ doc' = r.p
            /\ ret' = Return("JSON.Scan", value, target, r.err, NilValue,
                             IF rt THEN ret.src ELSE ZeroJSON, rt)
            /\ UNCHANGED <<E, vec, sa, pt, ls>>

\* p := StringArray{...}, or var p StringArray
StringArrayLiteral ==
    \E p \in StringArrayLiterals :
        /\ sa' = p
        /\ ret' = Return("StringArray.literal", NilValue, sa, "nil", NilValue,
                         NilStringArray, FALSE)
        /\ UNCHANGED <<E, vec, doc, pt, ls>>

\* p.Value()
StringArrayValueCall ==
    LET r == StringArrayValue(sa)
    IN  /\ ret' = Return("StringArray.Value", NilValue, sa, r.err, r.val, sa, FALSE)
        /\ UNCHANGED <<E, vec, doc, sa, pt, ls>>

\* p.Scan(value), on the instance under test or on a fresh zero value.
StringArrayScanCall ==
    \E value \in JSONInputs \cup Returned, fresh \in BOOLEAN :
        LET target == IF fresh THEN NilStringArray ELSE sa
            r == StringArrayScan(target, value)
            rt == value \in Returned
        IN  /\ sa' = r.p
            /\ ret' = Return("StringArray.Scan", value, target, r.err, NilValue,
                             IF rt THEN ret.src ELSE NilStringArray, rt)
            /\ UNCHANGED <<E, vec, doc, pt, ls>>

NextDocument ==
    \/ JSONLiteral \/ JSONValueCall \/ JSONScanCall
    \/ StringArrayLiteral \/ StringArrayValueCall \/ StringArrayScanCall

SpecDocument == InitNoVector /\ [][NextDocument]_vars

----------------------------------------------------------------------------
(* One row of five columns, each scanned into its codec.  The driver hands
   Scan a column value of any kind: nil, a string, a byte buffer, or a value
   of another kind such as an int64. *)

ColumnValues ==
    { NilValue, OtherValue,
      StringValue(Text(<<"[", "1", "]">>)),
      BytesValue(PointBuffer(<<0, 0, 0, 0>>, 1, 1, 1)),
      BytesValue(PathBuffer(1, 1, 2, 1, 1)),
      BytesValue(Text(<<"1">>)),
      BytesValue(Text(<<"[", "\"", "a", "\"", "]">>)) }

VectorScanColumn ==
    \E value \in ColumnValues :
        /\ vec' = VectorScan(E, vec, value).v
        /\ ret' = Return("Vector.Scan", value, vec, VectorScan(E, vec, value).err,
                         NilValue, ZeroVector, FALSE)
        /\ UNCHANGED <<E, doc, sa, pt, ls>>

PointScanColumn ==
    \E value \in ColumnValues :
        /\ pt' = PointScan(pt, value).p
        /\ ret' = Return("Point.Scan", value, pt, PointScan(pt, value).err,
                         NilValue, ZeroPoint, FALSE)
        /\ UNCHANGED <<E, vec, doc, sa, ls>>

LineStringScanColumn ==
    \E value \in ColumnValues :
        /\ ls' = LineStringScan(ls, value).l
        /\ ret' = Return("LineString.Scan", value, ls, LineStringScan(ls, value).err,
                         NilValue, ZeroLineString, FALSE)
        /\ UNCHANGED <<E, vec, doc, sa, pt>>

JSONScanColumn ==
    \E value \in ColumnValues :
        /\ doc' = JSONScan(doc, value).p
        /\ ret' = Return("JSON.Scan", value, doc, JSONScan(doc, value).err,
                         NilValue, ZeroJSON, FALSE)
        /\ UNCHANGED <<E, vec, sa, pt, ls>>

StringArrayScanColumn ==
    \E value \in ColumnValues :
        /\ sa' = StringArrayScan(sa, value).p
        /\ ret' = Return("StringArray.Scan", value, sa, StringArrayScan(sa, value).err,
                         NilValue, NilStringArray, FALSE)
        /\ UNCHANGED <<E, vec, doc, pt, ls>>

NextRow ==
    \/ VectorScanColumn \/ PointScanColumn \/ LineStringScanColumn
    \/ JSONScanColumn \/ StringArrayScanColumn

SpecRow == Init /\ [][NextRow]_vars

----------------------------------------------------------------------------
(* The schema generator's mapping from column types to Go types *)

\* strings.ToLower on ASCII text.
ToLower(s) == [i \in 1..Len(s) |-> IF s[i] >= 65 /\ s[i] <= 90 THEN s[i] + 32 ELSE s[i]]

\* strings.Index(s, sep) for a one-byte sep: the index of its first
\* occurrence, from 0, or -1.
Index(s, sep) ==
    IF \E i \in 1..Len(s) : s[i] = sep
    THEN (CHOOSE i \in 1..Len(s) : s[i] = sep /\ \A j \in 1..(i - 1) : s[j] # sep) - 1
    ELSE -1

\* strings.HasPrefix(mysqlType, "enum(")
IsEnumType(mysqlType) ==
    Len(mysqlType) >= 5 /\ SubSeq(mysqlType, 1, 5) = Text(<<"e", "n", "u", "m", "(">>)

\* The base type: the column type up to a "(" that is not its first byte.
BaseType(mysqlType) ==
    IF Index(mysqlType, 40) > 0 THEN SubSeq(mysqlType, 1, Index(mysqlType, 40))
    ELSE mysqlType

\* The switch of mysqlTypeToGoType on the lower-case base type.
GoTypeOfBase(base, nullable) ==
    CASE base \in { Text(<<"t", "i", "n", "y", "i", "n", "t">>),
            Text(<<"s", "m", "a", "l", "l", "i", "n", "t">>),
            Text(<<"m", "e", "d", "i", "u", "m", "i", "n", "t">>),
            Text(<<"i", "n", "t">>),
            Text(<<"i", "n", "t", "e", "g", "e", "r">>) } ->
            IF nullable THEN "sql.NullInt32" ELSE "int32"
      [] base = Text(<<"b", "i", "g", "i", "n", "t">>) ->
            IF nullable THEN "sql.NullInt64" ELSE "int64"
      [] base \in { Text(<<"f", "l", "o", "a", "t">>), Text(<<"r", "e", "a", "l">>) } ->
            IF nullable THEN "sql.NullFloat64" ELSE "float32"
      [] base \in { Text(<<"d", "o", "u", "b", "l", "e">>),
            Text(<<"d", "e", "c", "i", "m", "a", "l">>),
            Text(<<"n", "u", "m", "e", "r", "i", "c">>) } ->
            IF nullable THEN "sql.NullFloat64" ELSE "float64"
      [] base \in { Text(<<"c", "h", "a", "r">>),
            Text(<<"v", "a", "r", "c", "h", "a", "r">>),
            Text(<<"t", "e", "x", "t">>),
            Text(<<"t", "i", "n", "y", "t", "e", "x", "t">>),
            Text(<<"m", "e", "d", "i", "u", "m", "t", "e", "x", "t">>),
            Text(<<"l", "o", "n", "g", "t", "e", "x", "t">>) } ->
            IF nullable THEN "sql.NullString" ELSE "string"
      [] base \in { Text(<<"b", "i", "n", "a", "r", "y">>),
            Text(<<"v", "a", "r", "b", "i", "n", "a", "r", "y">>),
            Text(<<"b", "l", "o", "b">>),
            Text(<<"t", "i", "n", "y", "b", "l", "o", "b">>),
            Text(<<"m", "e", "d", "i", "u", "m", "b", "l", "o", "b">>),
            Text(<<"l", "o", "n", "g", "b", "l", "o", "b">>) } -> "[]byte"
      [] base \in { Text(<<"d", "a", "t", "e">>),
            Text(<<"d", "a", "t", "e", "t", "i", "m", "e">>),
            Text(<<"t", "i", "m", "e", "s", "t", "a", "m", "p">>) } ->
            IF nullable THEN "sql.NullTime" ELSE "time.Time"
      [] base = Text(<<"t", "i", "m", "e">>) ->
            IF nullable THEN "sql.NullString" ELSE "string"
      [] base = Text(<<"y", "e", "a", "r">>) ->
            IF nullable THEN "sql.NullInt32" ELSE "int32"
      [] base \in { Text(<<"b", "i", "t">>), Text(<<"b", "o", "o", "l">>),
            Text(<<"b", "o", "o", "l", "e", "a", "n">>) } ->
            IF nullable THEN "sql.NullBool" ELSE "bool"
      [] base \in { Text(<<"j", "s", "o", "n">>), Text(<<"p", "o", "i", "n", "t">>),
            Text(<<"g", "e", "o", "m", "e", "t", "r", "y">>) } -> "[]byte"
      [] OTHER -> IF nullable THEN "sql.NullString" ELSE "string"

\* mysqlTypeToGoType.  mapping is what the configuration holds for the
\* column: [exists, Type], exists FALSE also when there is no configuration.
MysqlTypeToGoType(mysqlType, nullable, isJSON, mapping) ==
    IF isJSON
    THEN IF mapping.exists THEN mapping.Type ELSE "types.JSON[any]"
    ELSE IF IsEnumType(mysqlType)
    THEN IF nullable THEN "sql.NullString" ELSE "string"
    ELSE GoTypeOfBase(ToLower(BaseType(mysqlType)), nullable)

\* The column types the generator is given, as SHOW COLUMNS reports them and
\* in other letter cases.
ColumnTypes ==
    { Text(<<"t", "i", "n", "y", "i", "n", "t", "(", "1", ")">>),
      Text(<<"T", "I", "N", "Y", "I", "N", "T", "(", "1", ")">>),
      Text(<<"t", "i", "n", "y", "i", "n", "t", "(", "2", ")">>),
      Text(<<"t", "i", "n", "y", "i", "n", "t">>),
      Text(<<"b", "o", "o", "l">>),
      Text(<<"b", "o", "o", "l", "e", "a", "n">>), Text(<<"b", "i", "t">>),
      Text(<<"B", "I", "T", "(", "1", ")">>),
      Text(<<"i", "n", "t", "(", "1", "1", ")">>),
      Text(<<"b", "i", "g", "i", "n", "t", "(", "2", "0", ")">>),
      Text(<<"f", "l", "o", "a", "t">>),
      Text(<<"d", "o", "u", "b", "l", "e">>),
      Text(<<"d", "e", "c", "i", "m", "a", "l", "(", "1", "0", ",", "2", ")">>),
      Text(<<"v", "a", "r", "c", "h", "a", "r", "(", "2", "5", "5", ")">>),
      Text(<<"t", "e", "x", "t">>),
      Text(<<"l", "o", "n", "g", "t", "e", "x", "t">>),
      Text(<<"b", "l", "o", "b">>), Text(<<"d", "a", "t", "e">>),
      Text(<<"d", "a", "t", "e", "t", "i", "m", "e">>),
      Text(<<"t", "i", "m", "e">>),
      Text(<<"y", "e", "a", "r", "(", "4", ")">>),
      Text(<<"j", "s", "o", "n">>), Text(<<"p", "o", "i", "n", "t">>),
      Text(<<"g", "e", "o", "m", "e", "t", "r", "y">>),
      Text(<<"e", "n", "u", "m", "(", "'", "a", "'", ",", "'", "b", "'", ")">>),
      Text(<<"E", "N", "U", "M", "(", "'", "a", "'", ")">>),
      Text(<<"(", "1", ")">>),
      Text(<<"v", "e", "c", "t", "o", "r", "(", "1", "2", "8", ",", "f", "l", "o", "a", "t", ")">>),
      Text(<<"v", "e", "c", "t", "o", "r", "(", "2", "5", "6", ",", "d", "o", "u", "b", "l", "e", ")">>),
      Text(<<"v", "e", "c", "t", "o", "r", "(", "5", "1", "2", ",", "i", "n", "t", ")">>),
      Text(<<"v", "e", "c", "t", "o", "r", "(", "1", "0", "2", "4", ",", "b", "i", "g", "i", "n", "t", ")">>),
      Text(<<"V", "E", "C", "T", "O", "R", "(", "1", "2", "8", ",", "F", "L", "O", "A", "T", ")">>),
      Text(<<"v", "e", "c", "t", "o", "r", "(", "2", "5", "6", ")">>),
      Text(<<"v", "e", "c", "t", "o", "r", "(", "1", "0", "2", "4", ")">>),
      Text(<<"v", "e", "c", "t", "o", "r", "(", "1", "2", "8", ",", "u", "n", "k", "n", "o", "w", "n", ")">>) }

\* The JSON mappings of the configuration for the column.
JSONMappings ==
    { [exists |-> FALSE, Type |-> ""], [exists |-> TRUE, Type |-> "models.Settings"] }

\* goType := sg.mysqlTypeToGoType(col.Type, col.Nullable, col.IsJSON, ...)
MysqlTypeToGoTypeCall ==
    \E mysqlType \in ColumnTypes, nullable \in BOOLEAN, isJSON \in BOOLEAN,
       mapping \in JSONMappings :
        /\ ret' = [op |-> "mysqlTypeToGoType",
                   in |-> [kind |-> "column", bytes |-> mysqlType, slack |-> <<>>,
                           nullable |-> nullable, isJSON |-> isJSON,
                           mapping |-> mapping],
                   pre |-> NilValue, err |-> "nil",
                   out |-> MysqlTypeToGoType(mysqlType, nullable, isJSON, mapping),
                   src |-> NilValue, rt |-> FALSE, by |-> "none"]
        /\ UNCHANGED <<E, vec, doc, sa, pt, ls>>

NextGenerator == MysqlTypeToGoTypeCall

SpecGenerator == InitNoVector /\ [][NextGenerator]_vars

----------------------------------------------------------------------------
(* Properties of Vector *)

\* C1: a Scan of the buffer that Value returned for a valid vector of one or
\* more elements returns no error and yields Valid, Dimension = len(Data) of
\* the encoded vector, and the same Data, element by element.
VectorBinaryRoundTrip ==
    (/\ ret.op = "Vector.Scan"
     /\ ret.rt
     /\ ret.src.Valid
     /\ Len(ret.src.Data) >= 1
     /\ ret.src.Dimension = Len(ret.src.Data))
    => /\ ret.err = "nil"
       /\ vec.Valid
       /\ vec.Dimension = Len(ret.src.Data)
       /\ Len(vec.Data) = Len(ret.src.Data)
       /\ \A i \in 1..Len(vec.Data) : vec.Data[i] = ret.src.Data[i]

\* A vector of two different int32 elements, the second negative, came back
\* from its own encoding into a fresh instance.
VectorBinaryRoundTripSeen ==
    /\ ret.op = "Vector.Scan"
    /\ ret.rt
    /\ ret.pre = ZeroVector
    /\ E = "int32"
    /\ ret.src = NewVector(<< <<0, 0, 0, 7>>, <<255, 255, 255, 254>> >>)
    /\ vec = ret.src

\* C3: Vector.Scan(nil) returns no error and leaves Valid = FALSE, whatever
\* the instance held before.
VectorScanNil ==
    (ret.op = "Vector.Scan" /\ ret.in.kind = "nil")
    => (ret.err = "nil" /\ ~vec.Valid)

\* Scan(nil) on an instance that held a valid vector of one or more elements.
VectorScanNilSeen ==
    /\ ret.op = "Vector.Scan"
    /\ ret.in.kind = "nil"
    /\ ret.pre.Valid
    /\ Len(ret.pre.Data) >= 1
    /\ ~vec.Valid

\* A text that is "[" and "]" in this order with nothing but white space
\* before, between and after them.
IsEmptyBrackets(s) ==
    \E i, j \in 1..Len(s) :
        /\ i < j
        /\ s[i] = 91
        /\ s[j] = 93
        /\ \A k \in (1..Len(s)) \ {i, j} : s[k] \in {9, 10, 11, 12, 13, 32}

\* C8: Scan of the text "[]", with or without white space inside or around
\* the brackets, returns no error and yields Valid, Dimension 0 and empty
\* Data; Value of a vector that is not Valid or has empty Data returns the
\* NULL sentinel (nil value, nil error).
EmptyVectorAsymmetry ==
    /\ (ret.op = "Vector.Scan" /\ ret.in.kind = "string"
            /\ IsEmptyBrackets(ret.in.bytes))
       => (ret.err = "nil" /\ vec.Valid /\ vec.Dimension = 0 /\ Len(vec.Data) = 0)
    /\ (ret.op = "Vector.Value" /\ (~ret.pre.Valid \/ Len(ret.pre.Data) = 0))
       => (ret.err = "nil" /\ ret.out = NilValue)

\* Value was called on a valid vector of dimension 0 and returned NULL.
EmptyVectorAsymmetrySeen ==
    /\ ret.op = "Vector.Value"
    /\ ret.pre.Valid
    /\ ret.pre.Dimension = 0
    /\ Len(ret.pre.Data) = 0
    /\ ret.out = NilValue

\* C9 as claimed: no Scan of a byte buffer succeeds with Valid and
\* Dimension 0.
NoEmptyVectorFromBytes ==
    (ret.op = "Vector.Scan" /\ ret.in.kind = "bytes" /\ ret.err = "nil")
    => ~(vec.Valid /\ vec.Dimension = 0)

\* C9 as amended: a Scan of a text succeeds with Dimension 0 only on the
\* empty-bracket form, and a Scan of a byte buffer succeeds with Valid and
\* Dimension 0 exactly when the buffer has at least 5 bytes, a tag in 1..4
\* and a dimension field of 0.
EmptyVectorSources ==
    /\ (ret.op = "Vector.Scan" /\ ret.in.kind = "string"
            /\ ret.err = "nil" /\ vec.Dimension = 0)
       => IsEmptyBrackets(ret.in.bytes)
    /\ (ret.op = "Vector.Scan" /\ ret.in.kind = "bytes")
       => ((ret.err = "nil" /\ vec.Valid /\ vec.Dimension = 0)
           <=> (/\ Len(ret.in.bytes) >= 5
                /\ ret.in.bytes[1] \in 1..4
                /\ \A k \in 2..5 : ret.in.bytes[k] = 0))

\* The 5-byte buffer with tag 1 and dimension 0 was scanned into an instance
\* that held elements, and left a valid vector of dimension 0.
EmptyVectorFromBytesSeen ==
    /\ ret.op = "Vector.Scan"
    /\ ret.in = BytesValue(<<1, 0, 0, 0, 0>>)
    /\ Len(ret.pre.Data) >= 1
    /\ ret.err = "nil"
    /\ vec.Valid
    /\ vec.Dimension = 0

----------------------------------------------------------------------------
(* Properties of JSON[T], StringArray, Point and LineString *)

\* C2: JSON.Scan(nil) returns no error and leaves Valid = FALSE and Data at
\* the zero value of T, whatever the instance held before.
JSONScanNil ==
    (ret.op = "JSON.Scan" /\ ret.in.kind = "nil")
    => (ret.err = "nil" /\ ~doc.Valid /\ doc.Data = ZeroDoc)

\* C4: Point.Scan of the buffer Point.Value returned for a point returns no
\* error and yields the X and the Y of that point, bit for bit, not swapped.
PointRoundTrip ==
    (ret.op = "Point.Scan" /\ ret.rt /\ ret.by = "Point.Value")
    => (ret.err = "nil" /\ pt.X = ret.src.X /\ pt.Y = ret.src.Y)

\* A point with X # Y came back from its own encoding into a fresh instance.
PointRoundTripSeen ==
    /\ ret.op = "Point.Scan"
    /\ ret.rt
    /\ ret.by = "Point.Value"
    /\ ret.pre = ZeroPoint
    /\ ret.src = [X |-> CoordA, Y |-> CoordB]
    /\ pt = ret.src

\* C5: LineString.Scan of the buffer LineString.Value returned for a path of
\* one or more points returns no error and yields as many points, each with
\* the same X and Y, in the same order.
PathRoundTrip ==
    (/\ ret.op = "LineString.Scan"
     /\ ret.rt
     /\ ret.by = "LineString.Value"
     /\ Len(ret.src.Points) >= 1)
    => /\ ret.err = "nil"
       /\ Len(ls.Points) = Len(ret.src.Points)
       /\ \A i \in 1..Len(ls.Points) :
            /\ ls.Points[i].X = ret.src.Points[i].X
            /\ ls.Points[i].Y = ret.src.Points[i].Y

\* A path of two different points came back from its own encoding into a
\* fresh instance.
PathRoundTripSeen ==
    /\ ret.op = "LineString.Scan"
    /\ ret.rt
    /\ ret.by = "LineString.Value"
    /\ ret.pre = ZeroLineString
    /\ Len(ret.src.Points) = 2
    /\ ret.src.Points[1] # ret.src.Points[2]
    /\ ls = ret.src

\* C6: LineString.Scan accepts the buffer LineString.Value returned for a
\* path of no points: no error, and no points.
EmptyPathRoundTrip ==
    (/\ ret.op = "LineString.Scan"
     /\ ret.rt
     /\ ret.by = "LineString.Value"
     /\ Len(ret.src.Points) = 0)
    => (ret.err = "nil" /\ Len(ls.Points) = 0)

\* C7: StringArray.Value of a list without items, nil or not, returns the
\* text [] and no error, never NULL, and Scan of what it returned yields a
\* list without items.
EmptyStringArrayLiteral ==
    /\ (ret.op = "StringArray.Value" /\ Len(ret.pre.items) = 0)
       => (ret.err = "nil" /\ ret.out = BytesValue(<<91, 93>>))
    /\ (ret.op = "StringArray.Scan" /\ ret.rt /\ ret.by = "StringArray.Value"
            /\ Len(ret.src.items) = 0)
       => (ret.err = "nil" /\ Len(sa.items) = 0)

\* A buffer whose flag byte and type tag are those of a Point.
IsPointTagged(b) ==
    /\ Len(b) >= 9
    /\ \/ (b[5] = 1 /\ SubSeq(b, 6, 9) = <<1, 0, 0, 0>>)
       \/ (b[5] = 0 /\ SubSeq(b, 6, 9) = <<0, 0, 0, 1>>)

\* C10: LineString.Scan of a Point-tagged buffer, the 25 bytes of Point.Value
\* among them, fails with the type-mismatch error and with no other.
PathRejectsPointTag ==
    (/\ ret.op = "LineString.Scan"
     /\ ret.in.kind = "bytes"
     /\ IsPointTagged(ret.in.bytes))
    => ret.err = "expected geometry type 2 (LineString)"

\* A buffer of 25 bytes or more whose flag byte names a byte order and whose
\* type tag, read in that order, is not that of a Point.
IsOtherTagged(b) ==
    /\ Len(b) >= 25
    /\ b[5] \in {0, 1}
    /\ OrderWord(b[5], Slice(b, 5, 9)) # Uint32OfInt(WKBTypePoint)

\* C11: Point.Scan of a byte buffer of 25 bytes or more whose type tag, read
\* in the byte order of its flag, is not 1 fails with the type-mismatch error
\* and leaves X and Y as they were.
PointRejectsOtherTag ==
    (/\ ret.op = "Point.Scan"
     /\ ret.in.kind = "bytes"
     /\ IsOtherTagged(ret.in.bytes))
    => (ret.err = "expected geometry type 1 (Point)" /\ pt = ret.pre)

\* The coordinates a Point buffer carries behind its tag.
CarriedPoint(b) ==
    [X |-> OrderWord(b[5], Slice(b, 9, 17)), Y |-> OrderWord(b[5], Slice(b, 17, 25))]

\* C12: Point.Scan of a 25-byte buffer with a valid flag and the Point tag
\* returns no error and yields the coordinates the buffer carries, whatever
\* its four leading SRID bytes are.
PointIgnoresSRID ==
    (/\ ret.op = "Point.Scan"
     /\ ret.in.kind = "bytes"
     /\ Len(ret.in.bytes) = 25
     /\ IsPointTagged(ret.in.bytes))
    => (ret.err = "nil" /\ pt = CarriedPoint(ret.in.bytes))

----------------------------------------------------------------------------
(* Properties of Vector.Scan *)

\* C13: Vector.Scan picks the text or the binary decoder by what the input
\* holds, not by its kind: a string or a byte buffer that starts, after
\* leading white space, with "[" is parsed as text, every other one is
\* decoded as binary.
VectorDispatchByContent ==
    (ret.op = "Vector.Scan" /\ ret.in.kind \in {"string", "bytes"})
    => IF HasPrefix(TrimSpace(ret.in.bytes), 91)
       THEN /\ ret.err = ScanFromString(E, ret.pre, ret.in.bytes).err
            /\ vec = ScanFromString(E, ret.pre, ret.in.bytes).v
       ELSE /\ ret.err = ScanBinary(E, ret.pre, ret.in.bytes).err
            /\ vec = ScanBinary(E, ret.pre, ret.in.bytes).v

\* C14: whenever Vector.Scan returns an error, Data, Dimension and Valid are
\* what they were before the call.
VectorScanFailureKeepsAll ==
    (ret.op = "Vector.Scan" /\ ret.err \notin {"nil", "panic"})
    => vec = ret.pre

\* The second element of a text failed to parse after the first one parsed,
\* on a valid vector of two elements, and the vector still holds them.
VectorScanFailureKeepsAllSeen ==
    /\ ret.op = "Vector.Scan"
    /\ ret.in = StringValue(Text(<<"[", "1", ",", "x", "]">>))
    /\ ret.err = "failed to parse vector element"
    /\ ret.pre.Valid
    /\ Len(ret.pre.Data) = 2
    /\ vec = ret.pre

\* C15: Vector.Scan of a byte buffer of 5 bytes or more whose first byte is
\* not 1, 2, 3 or 4 fails with the unknown-element-type error, for every
\* dimension field, rest of the buffer and element type.
UnknownTagRejected ==
    (/\ ret.op = "Vector.Scan"
     /\ ret.in.kind = "bytes"
     /\ Len(ret.in.bytes) >= 5
     /\ ret.in.bytes[1] \notin 1..4)
    => ret.err = "unknown vector element type"

\* Tag 5 under the largest dimension field, or tag 0 under a dimension
\* field of 1, was rejected on a valid vector.
UnknownTagRejectedSeen ==
    /\ ret.op = "Vector.Scan"
    /\ ret.in \in {BytesValue(<<5, 255, 255, 255, 255>>),
                   BytesValue(<<0, 1, 0, 0, 0>>)}
    /\ ret.pre.Valid
    /\ ret.err = "unknown vector element type"

\* The dimension field of a buffer and the width of the elements its tag
\* names, as the wire format defines them.
DimensionField(b) == b[2] + 256 * (b[3] + 256 * (b[4] + 256 * b[5]))
TagWidth(t) == IF t \in {1, 3} THEN 4 ELSE 8

\* C16: Vector.Scan of a byte buffer under 5 bytes, or with a recognised tag
\* and fewer than 5 + dimension * width bytes, fails with a too-short error;
\* with a recognised tag and at least that many bytes it passes the length
\* test; and it never reads at or past the end of the buffer.
VectorTruncation ==
    (ret.op = "Vector.Scan" /\ ret.in.kind = "bytes")
    => LET b == ret.in.bytes
       IN  /\ Len(b) < 5 => ret.err = "vector data too short"
           /\ (Len(b) >= 5 /\ b[1] \in 1..4)
              => (ret.err = "vector data too short for dimension"
                  <=> Len(b) < 5 + DimensionField(b) * TagWidth(b[1]))
           /\ ScanBinaryExtent(E, b) <= Len(b)
           /\ ret.err \in {"vector data too short",
                           "vector data too short for dimension"}
              => vec = ret.pre

\* A buffer one byte short of its two 8-byte elements was refused.
VectorTruncationSeen ==
    /\ ret.op = "Vector.Scan"
    /\ ret.in.kind = "bytes"
    /\ Len(ret.in.bytes) = 20
    /\ ret.in.bytes[1] = 2
    /\ DimensionField(ret.in.bytes) = 2
    /\ ret.err = "vector data too short for dimension"

----------------------------------------------------------------------------
(* Further properties of Point and JSON *)

\* Whether Point.Scan hands the bytes b to its text parser.
IsTextDispatched(b) == Len(b) > 5 /\ b[1] \in {80, 112}

\* C17: Point.Scan of bytes that are not sent to the text parser fails with
\* the too-short error when there are fewer than 25 of them, and succeeds on
\* exactly 25 of them with flag 0 or 1 and the Point tag.
PointTruncation ==
    (/\ ret.op = "Point.Scan"
     /\ ret.in.kind \in {"bytes", "string"}
     /\ ~IsTextDispatched(ret.in.bytes))
    => LET b == ret.in.bytes
       IN  /\ Len(b) < 25 => (ret.err = "WKB data too short" /\ pt = ret.pre)
           /\ (Len(b) = 25 /\ IsPointTagged(b))
              => (ret.err = "nil" /\ pt = CarriedPoint(b))

\* A buffer of 24 bytes was refused as too short.
PointTruncationSeen ==
    /\ ret.op = "Point.Scan"
    /\ ret.in.kind = "bytes"
    /\ Len(ret.in.bytes) = 24
    /\ ret.pre # ZeroPoint
    /\ ret.err = "WKB data too short"
    /\ pt = ret.pre

\* C18: JSON.Value returns the NULL value and no error whenever Valid is
\* false, whatever Data holds; when Valid is true it returns either the
\* serialized Data, never the NULL value, or a serialization error.
JSONValueOfInvalid ==
    ret.op = "JSON.Value"
    => IF ~ret.pre.Valid
       THEN ret.out = NilValue /\ ret.err = "nil"
       ELSE \/ /\ ret.err = "nil"
               /\ ret.out.kind = "bytes"
               /\ ret.out.bytes = Text(<<ret.pre.Data>>)
            \/ ret.err = "json: unsupported value"

\* Value was called on an invalid JSON whose Data is 2 and returned NULL.
JSONValueOfInvalidSeen ==
    /\ ret.op = "JSON.Value"
    /\ ret.pre = [Data |-> "2", Valid |-> FALSE]
    /\ ret.out = NilValue
    /\ ret.err = "nil"

----------------------------------------------------------------------------
(* Properties of all five Scan methods *)

\* The instance a Scan call decodes into, and the error it returns for a
\* value of a kind it does not support.
ScannedInstance ==
    CASE ret.op = "Vector.Scan" -> vec
      [] ret.op = "Point.Scan" -> pt
      [] ret.op = "LineString.Scan" -> ls
      [] ret.op = "JSON.Scan" -> doc
      [] ret.op = "StringArray.Scan" -> sa

UnsupportedError ==
    CASE ret.op = "Vector.Scan" -> "unsupported type for Vector"
      [] ret.op = "Point.Scan" -> "unsupported type for Point"
      [] ret.op = "LineString.Scan" -> "unsupported type for LineString"
      [] ret.op = "JSON.Scan" -> "unsupported type for JSON"
      [] ret.op = "StringArray.Scan" -> "unsupported type for StringArray"

\* C19: for JSON, StringArray, Point, LineString and Vector alike, Scan of a
\* value that is neither nil, a string nor a byte buffer returns the
\* unsupported-type error and leaves the instance unchanged.
UnsupportedKindRejected ==
    (/\ ret.op \in {"Vector.Scan", "Point.Scan", "LineString.Scan",
                    "JSON.Scan", "StringArray.Scan"}
     /\ ret.in.kind \notin {"nil", "string", "bytes"})
    => (ret.err = UnsupportedError /\ ScannedInstance = ret.pre)

\* All five instances hold decoded values, and the Scan of a value of
\* another kind into the JSON one was refused.
UnsupportedKindRejectedSeen ==
    /\ ret.op = "JSON.Scan"
    /\ ret.in = OtherValue
    /\ ret.err = "unsupported type for JSON"
    /\ doc = [Data |-> "1", Valid |-> TRUE]
    /\ vec.Valid
    /\ pt # ZeroPoint
    /\ ls # ZeroLineString
    /\ ~sa.isNil

----------------------------------------------------------------------------
(* Properties of the text form of Vector *)

\* Whether the trimmed text s stands between a pair of brackets, and the
\* trimmed elements between the commas inside a bracketed s (none when there
\* is only white space inside).
IsBracketed(s) == Len(s) >= 2 /\ s[1] = 91 /\ s[Len(s)] = 93

BracketParts(s) ==
    IF TrimSpace(SubSeq(s, 2, Len(s) - 1)) = <<>> THEN <<>>
    ELSE [i \in 1..Len(Split(TrimSpace(SubSeq(s, 2, Len(s) - 1)), 44)) |->
            TrimSpace(Split(TrimSpace(SubSeq(s, 2, Len(s) - 1)), 44)[i])]

\* The texts "[1.0, 2.5, 3.14, -4.2]" and "[2147483648]".
FourFloatsText ==
    Text(<<"[", "1", ".", "0", ",", " ", "2", ".", "5", ",", " ",
           "3", ".", "1", "4", ",", " ", "-", "4", ".", "2", "]">>)
PastInt32Text ==
    Text(<<"[", "2", "1", "4", "7", "4", "8", "3", "6", "4", "8", "]">>)

\* What Vector.Scan makes of the n >= 1 elements of a bracketed text: all of
\* them in order when every one parses, an error when one does not.
TextElementsDecoded(parts) ==
    IF \A i \in 1..Len(parts) : ParseElement(E, parts[i]).ok
    THEN /\ ret.err = "nil"
         /\ vec = [Data |-> [i \in 1..Len(parts) |-> ParseElement(E, parts[i]).word],
                   Dimension |-> Len(parts),
                   Valid |-> TRUE]
    ELSE ret.err = "failed to parse vector element"

\* C20: Vector.Scan of a string "[e1, ..., en]", n >= 1, with optional white
\* space around the brackets and the elements, returns no error and yields
\* Valid, Dimension n and the elements in order when all of them parse in
\* the element type; it returns an error when one does not (an empty one, a
\* non-numeric one, an integer past the range of int32 for Vector[int32]) or
\* when a bracket is missing.
VectorTextDecode ==
    (ret.op = "Vector.Scan" /\ ret.in.kind = "string")
    => /\ ~IsBracketed(TrimSpace(ret.in.bytes))
          => ret.err = "invalid vector string format"
       /\ (/\ IsBracketed(TrimSpace(ret.in.bytes))
           /\ Len(BracketParts(TrimSpace(ret.in.bytes))) >= 1)
          => TextElementsDecoded(BracketParts(TrimSpace(ret.in.bytes)))
       /\ (ret.in.bytes = FourFloatsText /\ E = "float64")
          => vec.Data = << <<63, 240, 0, 0, 0, 0, 0, 0>>,
                           <<64, 4, 0, 0, 0, 0, 0, 0>>,
                           <<64, 9, 30, 184, 81, 235, 133, 31>>,
                           <<192, 16, 204, 204, 204, 204, 204, 205>> >>
       /\ (ret.in.bytes = PastInt32Text /\ E = "int32")
          => ret.err = "failed to parse vector element"
       /\ (ret.in.bytes = PastInt32Text /\ E = "int64")
          => vec.Data = << <<0, 0, 0, 0, 128, 0, 0, 0>> >>

\* "[1.0, 2.5, 3.14, -4.2]" was decoded into a Vector[float64] that held
\* something else before.
VectorTextDecodeSeen ==
    /\ ret.op = "Vector.Scan"
    /\ E = "float64"
    /\ ret.in = StringValue(FourFloatsText)
    /\ ret.err = "nil"
    /\ ret.pre.Valid
    /\ ret.pre.Dimension = 2
    /\ vec.Valid
    /\ vec.Dimension = 4
    /\ vec.Data[3] = <<64, 9, 30, 184, 81, 235, 133, 31>>

----------------------------------------------------------------------------
(* Properties of the text form of Point *)

\* The texts "POINT(-73.9654 40.7829)" and "point(1 2)".
SpecPointText ==
    Text(<<"P", "O", "I", "N", "T", "(", "-", "7", "3", ".", "9", "6", "5", "4",
           " ", "4", "0", ".", "7", "8", "2", "9", ")">>)
LowerPointText == Text(<<"p", "o", "i", "n", "t", "(", "1", " ", "2", ")">>)

\* C21: Point.Scan of more than 5 bytes starting with "P" or "p" parses them
\* as text and never as binary: "POINT(x y)" yields X = x and Y = y, a text
\* with another leading token before "(x y)", such as "point(1 2)", yields
\* the same through the lenient fallback, and when both parses fail Scan
\* returns the parse error and leaves X and Y unchanged.
PointTextDecode ==
    (/\ ret.op = "Point.Scan"
     /\ ret.in.kind \in {"string", "bytes"}
     /\ IsTextDispatched(ret.in.bytes))
    => /\ ret.err \in {"nil", "failed to parse Point"}
       /\ ret.err # "nil" => pt = ret.pre
       /\ ret.in.bytes = SpecPointText
          => (ret.err = "nil" /\ pt = [X |-> CoordA, Y |-> CoordB])
       /\ ret.in.bytes = LowerPointText
          => /\ ret.err = "nil"
             /\ pt = [X |-> <<63, 240, 0, 0, 0, 0, 0, 0>>,
                      Y |-> <<64, 0, 0, 0, 0, 0, 0, 0>>]

----------------------------------------------------------------------------
(* Properties of the wire layouts *)

\* C22: Point.Value never fails and returns exactly 25 bytes: four zero
\* SRID bytes, the flag 1, the tag 1 least significant byte first, the bits
\* of X in bytes 9-16 and the bits of Y in bytes 17-24, both least
\* significant byte first.
PointWireLayout ==
    ret.op = "Point.Value"
    => /\ ret.err = "nil"
       /\ ret.out.kind = "bytes"
       /\ Len(ret.out.bytes) = 25
       /\ SubSeq(ret.out.bytes, 1, 4) = <<0, 0, 0, 0>>
       /\ ret.out.bytes[5] = 1
       /\ SubSeq(ret.out.bytes, 6, 9) = <<1, 0, 0, 0>>
       /\ SubSeq(ret.out.bytes, 10, 17) = Reverse(ret.pre.X)
       /\ SubSeq(ret.out.bytes, 18, 25) = Reverse(ret.pre.Y)

\* The point (-73.9654, 40.7829) was encoded.
PointWireLayoutSeen ==
    /\ ret.op = "Point.Value"
    /\ ret.pre = [X |-> CoordA, Y |-> CoordB]
    /\ ret.out.bytes[10] = 189
    /\ ret.out.bytes[25] = 64

\* C23: LineString.Value of n points returns exactly 13 + 16 * n bytes: four
\* zero SRID bytes, the flag 1, the tag 2 and the count n least significant
\* byte first, then X of point i at offset 13 + 16 * i and its Y 8 bytes
\* later; the count equals the number of coordinate pairs that follow.
PathWireLayout ==
    ret.op = "LineString.Value"
    => /\ ret.err = "nil"
       /\ ret.out.kind = "bytes"
       /\ Len(ret.out.bytes) = 13 + 16 * Len(ret.pre.Points)
       /\ SubSeq(ret.out.bytes, 1, 4) = <<0, 0, 0, 0>>
       /\ ret.out.bytes[5] = 1
       /\ SubSeq(ret.out.bytes, 6, 9) = <<2, 0, 0, 0>>
       /\ SubSeq(ret.out.bytes, 10, 13) = <<Len(ret.pre.Points), 0, 0, 0>>
       /\ 16 * ret.out.bytes[10] = Len(ret.out.bytes) - 13
       /\ \A i \in 1..Len(ret.pre.Points) :
            /\ SubSeq(ret.out.bytes, 16 * i - 2, 16 * i + 5)
               = Reverse(ret.pre.Points[i].X)
            /\ SubSeq(ret.out.bytes, 16 * i + 6, 16 * i + 13)
               = Reverse(ret.pre.Points[i].Y)

\* A path of two different points was encoded in 45 bytes.
PathWireLayoutSeen ==
    /\ ret.op = "LineString.Value"
    /\ Len(ret.pre.Points) = 2
    /\ ret.pre.Points[1] # ret.pre.Points[2]
    /\ Len(ret.out.bytes) = 45
    /\ ret.out.bytes[10] = 2

\* The tag and the element width the wire format gives an element type.
WireTag(e) ==
    CASE e = "float32" -> 1 [] e = "float64" -> 2
      [] e = "int32" -> 3 [] e = "int64" -> 4

\* C24: Vector.Value of a valid vector of n >= 1 elements returns exactly
\* 5 + n * w bytes: the tag 1, 2, 3 or 4 of float32, float64, int32 or int64,
\* n in bytes 1-4 least significant byte first, and element i in the w bytes
\* from 5 + i * w on, least significant byte first, with w = 4 for tags 1 and
\* 3 and 8 for tags 2 and 4.
VectorWireLayout ==
    (ret.op = "Vector.Value" /\ ret.pre.Valid /\ Len(ret.pre.Data) >= 1)
    => /\ ret.err = "nil"
       /\ ret.out.kind = "bytes"
       /\ ret.out.bytes[1] = WireTag(E)
       /\ Len(ret.out.bytes) = 5 + Len(ret.pre.Data) * TagWidth(WireTag(E))
       /\ SubSeq(ret.out.bytes, 2, 5) = <<Len(ret.pre.Data), 0, 0, 0>>
       /\ \A i \in 1..Len(ret.pre.Data) :
            SubSeq(ret.out.bytes, 6 + (i - 1) * TagWidth(WireTag(E)),
                   5 + i * TagWidth(WireTag(E)))
            = Reverse(ret.pre.Data[i])

\* A Vector[int32] holding 7 and -2 was encoded in 13 bytes.
VectorWireLayoutSeen ==
    /\ ret.op = "Vector.Value"
    /\ E = "int32"
    /\ ret.pre.Valid
    /\ ret.pre.Data = << <<0, 0, 0, 7>>, <<255, 255, 255, 254>> >>
    /\ ret.out.bytes = <<3, 2, 0, 0, 0, 7, 0, 0, 0, 254, 255, 255, 255>>

----------------------------------------------------------------------------
(* Invariants of Vector *)

\* C27: in every state reached from the zero value or from NewVector through
\* Scan calls, failed ones included, a valid vector has Dimension equal to
\* the length of Data, and Len returns Dimension.
VectorValidity ==
    /\ vec.Valid => vec.Dimension = Len(vec.Data)
    /\ VectorLen(vec) = vec.Dimension

\* A valid vector of two elements is still valid, with Dimension
\* 2, after a Scan that failed.
VectorValiditySeen ==
    /\ ret.op = "Vector.Scan"
    /\ ret.err = "vector data too short for dimension"
    /\ vec.Valid
    /\ vec.Dimension = 2
    /\ Len(vec.Data) = 2

----------------------------------------------------------------------------
(* Properties of the schema generator *)

NotNullColumn(t) ==
    /\ ret.op = "mysqlTypeToGoType"
    /\ ret.in.bytes = t /\ ~ret.in.nullable /\ ~ret.in.isJSON

NullableColumn(t) ==
    /\ ret.op = "mysqlTypeToGoType"
    /\ ret.in.bytes = t /\ ret.in.nullable /\ ~ret.in.isJSON

\* C25: a tinyint(1) column, in either letter case, becomes bool, and
\* sql.NullBool when nullable; tinyint(2) and tinyint become int32; bool,
\* boolean and bit become bool.
GeneratorBooleanMapping ==
    /\ \A t \in {Text(<<"t","i","n","y","i","n","t","(","1",")">>),
                 Text(<<"T","I","N","Y","I","N","T","(","1",")">>)} :
          /\ NotNullColumn(t) => ret.out = "bool"
          /\ NullableColumn(t) => ret.out = "sql.NullBool"
    /\ \A t \in {Text(<<"t","i","n","y","i","n","t","(","2",")">>),
                 Text(<<"t","i","n","y","i","n","t">>)} :
          NotNullColumn(t) => ret.out = "int32"
    /\ \A t \in {Text(<<"b","o","o","l">>), Text(<<"b","o","o","l","e","a","n">>),
                 Text(<<"b","i","t">>)} :
          NotNullColumn(t) => ret.out = "bool"

\* The element type named in a vector column type: the text after the
\* comma, in lower case, or nothing when there is no comma.
VectorElementName(t) ==
    IF Index(t, 44) < 0 THEN <<>>
    ELSE ToLower(SubSeq(t, Index(t, 44) + 2, Len(t) - 1))

IsVectorColumn(t) ==
    Len(t) >= 7 /\ ToLower(SubSeq(t, 1, 7)) = Text(<<"v","e","c","t","o","r","(">>)

ExpectedVectorType(t) ==
    CASE VectorElementName(t) = <<>> -> "types.Vector[float32]"
      [] VectorElementName(t) = Text(<<"f","l","o","a","t">>) -> "types.Vector[float32]"
      [] VectorElementName(t) = Text(<<"d","o","u","b","l","e">>) -> "types.Vector[float64]"
      [] VectorElementName(t) = Text(<<"i","n","t">>) -> "types.Vector[int32]"
      [] VectorElementName(t) = Text(<<"b","i","g","i","n","t">>) -> "types.Vector[int64]"
      [] OTHER -> "types.Vector[float64]"

\* C26: a vector column becomes types.Vector of the element type it names:
\* float32 for float and when none is named, float64 for double and for an
\* unknown name, int32 for int, int64 for bigint, in either letter case.
GeneratorVectorMapping ==
    \A t \in ColumnTypes :
        (IsVectorColumn(t) /\ NotNullColumn(t)) => ret.out = ExpectedVectorType(t)

----------------------------------------------------------------------------
(* Properties of decoding ill-formed buffers *)

\* The count field of a path buffer, read in the byte order of its flag.
CountField(b) == IntOfUint32(OrderWord(b[5], Slice(b, 9, 13)))

\* A buffer LineString.Scan takes past its flag and tag tests.
IsPathTagged(b) ==
    /\ Len(b) >= 29
    /\ b[5] \in {0, 1}
    /\ OrderWord(b[5], Slice(b, 5, 9)) = Uint32OfInt(WKBTypeLineString)

\* C28: LineString.Scan of a buffer of 29 bytes or more with a valid flag and
\* tag 2 whose count field N needs more than the bytes there are
\* (length < 13 + 16 * N) returns an error, does not abort on a read out of
\* range, and leaves Points as they were.
PathCountBeyondData ==
    (/\ ret.op = "LineString.Scan"
     /\ ret.in.kind = "bytes"
     /\ IsPathTagged(ret.in.bytes)
     /\ Len(ret.in.bytes) < 13 + 16 * CountField(ret.in.bytes))
    => (ret.err \notin {"nil", "panic"} /\ ls = ret.pre)

\* A well-formed binary vector buffer of one element or more whose tag names
\* an element type other than e.
IsOtherKindBuffer(e, b) ==
    /\ Len(b) >= 5
    /\ b[1] \in 1..4
    /\ b[1] # WireTag(e)
    /\ SubSeq(b, 2, 5) # <<0, 0, 0, 0>>
    /\ Len(b) >= 5 + DimensionField(b) * TagWidth(b[1])

\* C29: Vector[E].Scan of a well-formed binary buffer of one element or more
\* whose tag is 1, 2, 3 or 4 but not the tag of E returns an error, does not
\* abort, and leaves the vector as it was.
VectorRejectsOtherKind ==
    (/\ ret.op = "Vector.Scan"
     /\ ret.in.kind = "bytes"
     /\ IsOtherKindBuffer(E, ret.in.bytes))
    => (ret.err \notin {"nil", "panic"} /\ vec = ret.pre)

----------------------------------------------------------------------------
(* Properties of the byte order of geometry buffers *)

\* The bytes s with each complete group of 8 reversed.
RECURSIVE ReverseWords8(_)
ReverseWords8(s) ==
    IF Len(s) < 8 THEN s
    ELSE Reverse(SubSeq(s, 1, 8)) \o ReverseWords8(SubSeq(s, 9, Len(s)))

\* The head of a geometry buffer of 9 bytes or more in the other byte order:
\* the same SRID bytes, the other flag, the tag reversed.
OtherOrderHead(b) == SubSeq(b, 1, 4) \o <<1 - b[5]>> \o Reverse(Slice(b, 5, 9))

\* A point buffer of 25 bytes or more with flag 0 or 1, written in the other
\* byte order: the other flag, and the tag and every coordinate reversed.
PointOtherOrder(value) ==
    [kind |-> value.kind,
     bytes |-> OtherOrderHead(value.bytes)
               \o ReverseWords8(SubSeq(value.bytes, 10, Len(value.bytes))),
     slack |-> value.slack]

\* A path buffer of 29 bytes or more with flag 0 or 1, written in the other
\* byte order: the other flag, and the tag, the count and every coordinate
\* reversed, those behind the length of the buffer too.
PathOtherOrder(value) ==
    [kind |-> value.kind,
     bytes |-> OtherOrderHead(value.bytes) \o Reverse(Slice(value.bytes, 9, 13))
               \o ReverseWords8(SubSeq(value.bytes, 14, Len(value.bytes))),
     slack |-> ReverseWords8(value.slack)]

\* C30: in Point.Scan and LineString.Scan the flag byte at offset 4 selects
\* the byte order of the tag, the count and the coordinates: a buffer with
\* flag 0 or 1 gives the same result as the buffer with the other flag and
\* every field in the other byte order, and a binary buffer with any other
\* flag makes Scan return an error and leave the instance as it was.
ByteOrderSelection ==
    /\ (/\ ret.op = "Point.Scan"
        /\ ret.in.kind \in {"bytes", "string"}
        /\ Len(ret.in.bytes) >= 25
        /\ ret.in.bytes[5] \in {0, 1})
       => [p |-> pt, err |-> ret.err] = PointScan(ret.pre, PointOtherOrder(ret.in))
    /\ (/\ ret.op = "LineString.Scan"
        /\ ret.in.kind \in {"bytes", "string"}
        /\ Len(ret.in.bytes) >= 29
        /\ ret.in.bytes[5] \in {0, 1})
       => [l |-> ls, err |-> ret.err] = LineStringScan(ret.pre, PathOtherOrder(ret.in))
    /\ (/\ ret.op = "Point.Scan"
        /\ ret.in.kind \in {"bytes", "string"}
        /\ ~IsTextDispatched(ret.in.bytes)
        /\ Len(ret.in.bytes) >= 5
        /\ ret.in.bytes[5] \notin {0, 1})
       => (ret.err \notin {"nil", "panic"} /\ pt = ret.pre)
    /\ (/\ ret.op = "LineString.Scan"
        /\ ret.in.kind \in {"bytes", "string"}
        /\ Len(ret.in.bytes) >= 5
        /\ ret.in.bytes[5] \notin {0, 1})
       => (ret.err \notin {"nil", "panic"} /\ ls = ret.pre)

\* A point buffer with flag 0 and big-endian fields was decoded into a Point
\* that held other coordinates.
ByteOrderSelectionSeen ==
    /\ ret.op = "Point.Scan"
    /\ ret.in.kind = "bytes"
    /\ ret.in.bytes = PointBuffer(<<0, 0, 0, 0>>, 0, 0, 1)
    /\ ret.err = "nil"
    /\ ret.pre # pt
    /\ pt = [X |-> CoordA, Y |-> CoordB]

====
